---- MODULE Spec2Model ----
(***************************************************************************)
(* DannyPack, the compact binary codec for Nostr events of                 *)
(* src/src/dannypack.rs, as a state machine.                               *)
(*                                                                         *)
(* Bytes are naturals in 0..255.  A Rust String is the sequence of its     *)
(* UTF-8 bytes.  A byte pointer is a 0-based index into a memory, and a    *)
(* memory is a sequence whose element i+1 is the byte at index i; -1 marks *)
(* a byte of reserved capacity that was never written.                     *)
(***************************************************************************)
EXTENDS Integers, Sequences, FiniteSets, TLC

----------------------------------------------------------------------------
(* Bit operations on bytes. *)

Bit(a, k) == (a \div (2 ^ k)) % 2

BitOr(a, b) ==
    LET O(k) == IF Bit(a, k) = 1 \/ Bit(b, k) = 1 THEN 2 ^ k ELSE 0
    IN  O(0) + O(1) + O(2) + O(3) + O(4) + O(5) + O(6) + O(7)

BitAnd(a, b) ==
    LET A(k) == IF Bit(a, k) = 1 /\ Bit(b, k) = 1 THEN 2 ^ k ELSE 0
    IN  A(0) + A(1) + A(2) + A(3) + A(4) + A(5) + A(6) + A(7)

(* The OR of all the bytes of s. *)
BitOrAll(s) ==
    LET O(k) == IF \E i \in DOMAIN s : Bit(s[i], k) = 1 THEN 2 ^ k ELSE 0
    IN  O(0) + O(1) + O(2) + O(3) + O(4) + O(5) + O(6) + O(7)

(* e, with x evaluated first: TLC evaluates definitions lazily, and a long  *)
(* chain of pending writes to one memory would otherwise be evaluated in    *)
(* one deep nest.                                                           *)
Eager(x, e) == IF x = x THEN e ELSE e

----------------------------------------------------------------------------
(* Raw memory: writes through a pointer, and ptr::copy (memmove). *)

Write(mem, at, bytes) ==
    IF bytes = <<>> THEN mem ELSE
    LET end == at + Len(bytes)
        pre == IF at <= Len(mem) THEN SubSeq(mem, 1, at)
               ELSE mem \o [i \in 1..(at - Len(mem)) |-> -1]
        post == IF end < Len(mem) THEN SubSeq(mem, end + 1, Len(mem)) ELSE <<>>
    IN  pre \o bytes \o post

Copy(mem, src, dst, n) == Write(mem, dst, SubSeq(mem, src + 1, src + n))

----------------------------------------------------------------------------
(* Constants of the format. *)

FIXED_SIZE == 138

(* A lookup table that also knows the digits A-F. *)
HexLutAnyCase(b) ==
    IF b >= 48 /\ b <= 57 THEN b - 48
    ELSE IF b >= 97 /\ b <= 102 THEN b - 87
    ELSE IF b >= 65 /\ b <= 70 THEN b - 55
    ELSE 255

(* HEX_LUT_LOWER[b]: the nibble of a lowercase hex digit, 0xFF otherwise. *)
HEX_LUT_LOWER(b) ==
    IF b >= 48 /\ b <= 57 THEN b - 48
    ELSE IF b >= 97 /\ b <= 102 THEN b - 87
    ELSE 255

(* HEX_PAIR_LUT[b] as the two bytes it puts in memory: [hi digit, lo digit]. *)
HexChars == <<48, 49, 50, 51, 52, 53, 54, 55, 56, 57, 97, 98, 99, 100, 101, 102>>

(* A table with the low digit first. *)
HexPairLowFirst(b) == <<HexChars[(b % 16) + 1], HexChars[(b \div 16) + 1]>>

HEX_PAIR_LUT(b) == <<HexChars[(b \div 16) + 1], HexChars[(b % 16) + 1]>>

----------------------------------------------------------------------------
(* 64-bit unsigned values (u64, and usize on the 64-bit targets the crate   *)
(* is built for): a sequence of 64 bits, least significant first.           *)

U64FromNat(n) == [i \in 1..64 |-> IF i > 31 THEN 0 ELSE (n \div (2 ^ (i - 1))) % 2]

(* 2^64 - k for 1 <= k < 2^31: what 0 - k wraps to. *)
U64Wrapped(k) == [i \in 1..64 |-> 1 - U64FromNat(k - 1)[i]]

U64IsSmall(v) == \A i \in 32..64 : v[i] = 0

(* The value of v when U64IsSmall(v): bits 0..30, four at a time. *)
U64Nibble(v, i) == v[i] + (2 * v[i + 1]) + (4 * v[i + 2]) + (8 * v[i + 3])

U64ToNat(v) ==
    U64Nibble(v, 1) + (16 * U64Nibble(v, 5)) + (256 * U64Nibble(v, 9))
    + (4096 * U64Nibble(v, 13)) + (65536 * U64Nibble(v, 17))
    + (1048576 * U64Nibble(v, 21)) + (16777216 * U64Nibble(v, 25))
    + (268435456 * (v[29] + (2 * v[30]) + (4 * v[31])))

(* a > b: they differ, and a has the 1 at the highest bit where they do. *)
U64Gt(a, b) ==
    \E i \in 1..64 : a[i] > b[i] /\ \A k \in (i + 1)..64 : a[k] = b[k]

(* a + b modulo 2^64, and whether the sum overflowed.  Carry(i) is the    *)
(* carry out of bit i: some bit j <= i generates it and the bits between   *)
(* pass it on.                                                              *)
(* Two values below 2^30 are added as naturals.                            *)
U64Add(a, b) ==
    LET Carry(i) == \E j \in 1..i : /\ a[j] + b[j] = 2
                                    /\ \A k \in (j + 1)..i : a[k] + b[k] >= 1
    IN  IF \A i \in 31..64 : a[i] = 0 /\ b[i] = 0
        THEN [v |-> U64FromNat(U64ToNat(a) + U64ToNat(b)), overflow |-> FALSE]
        ELSE [v |-> [i \in 1..64 |-> (a[i] + b[i] + (IF Carry(i - 1) THEN 1 ELSE 0)) % 2],
              overflow |-> Carry(64)]

(* v | ((g as u64) << s) for a 7-bit g and 0 <= s < 64: bits shifted past  *)
(* bit 63 are lost.                                                         *)
U64OrShl(v, g, s) ==
    [i \in 1..64 |->
        IF (i - 1 >= s) /\ (i - 1 < s + 7) /\ ((g \div (2 ^ (i - 1 - s))) % 2 = 1)
        THEN 1 ELSE v[i]]


(* v >> 7 *)
U64Shr7(v) == [i \in 1..64 |-> IF i <= 57 THEN v[i + 7] ELSE 0]

(* (v & 0x7F) as u8 *)
U64Low7(v) == v[1] + (2 * v[2]) + (4 * v[3]) + (8 * v[4]) + (16 * v[5]) + (32 * v[6])
              + (64 * v[7])

----------------------------------------------------------------------------
(* Varint and length/flag header, write side. *)

(* The bytes the loop of write_varint_ptr writes for the u64 value. *)
RECURSIVE VarintLoop(_)
VarintLoop(value) ==
    IF \E i \in 8..64 : value[i] = 1
    THEN <<U64Low7(value) + 128>> \o VarintLoop(U64Shr7(value))
    ELSE <<U64Low7(value)>>

(* Returns the memory after the write and the number of bytes written. *)
write_varint_ptr(mem, dst, value) ==
    [mem |-> Write(mem, dst, VarintLoop(value)), n |-> Len(VarintLoop(value))]

(* A header that keeps the short form for len = 127. *)
WriteLenFlagShortAt127(mem, dst, len, is_hex) ==
    LET flag == IF is_hex THEN 128 ELSE 0
    IN  IF U64Gt(U64FromNat(128), len)
        THEN [mem |-> Write(mem, dst, <<flag + U64Low7(len)>>), n |-> 1]
        ELSE [mem |-> Write(mem, dst, <<flag + 127>> \o VarintLoop(len)),
              n |-> 1 + Len(VarintLoop(len))]

(* len is the usize as a u64. *)
write_len_flag_ptr(mem, dst, len, is_hex) ==
    LET flag == IF is_hex THEN 128 ELSE 0
    IN  IF U64Gt(U64FromNat(127), len)
        THEN [mem |-> Write(mem, dst, <<flag + U64Low7(len)>>), n |-> 1]
        ELSE LET w == write_varint_ptr(Write(mem, dst, <<flag + 127>>), dst + 1, len)
             IN  [mem |-> w.mem, n |-> 1 + w.n]

RECURSIVE varint_size(_)

(* A size that counts a second byte only from 0x100 on. *)
VarintSizeFrom256(value) ==
    IF \E i \in 9..64 : value[i] = 1 THEN 1 + varint_size(U64Shr7(value)) ELSE 1

varint_size(value) ==
    IF \E i \in 8..64 : value[i] = 1 THEN 1 + varint_size(U64Shr7(value)) ELSE 1

----------------------------------------------------------------------------
(* Hex heuristic. *)

(* The heuristic with a threshold of 16 characters. *)
MightBeHexMin16(src) ==
    LET len == Len(src)
    IN  IF len < 16 \/ len % 2 # 0 THEN FALSE
        ELSE BitOrAll([i \in 1..8 |-> HEX_LUT_LOWER(src[i])]) # 255

(* The heuristic without the test for an even length. *)
MightBeHexAnyParity(src) ==
    LET len == Len(src)
    IN  IF len < 8 THEN FALSE
        ELSE BitOrAll([i \in 1..8 |-> HEX_LUT_LOWER(src[i])]) # 255

might_be_hex(src) ==
    LET len == Len(src)
    IN  IF len < 8 \/ len % 2 # 0 THEN FALSE
        ELSE LET mask == BitOrAll([i \in 1..8 |-> HEX_LUT_LOWER(src[i])])
             IN  mask # 255

Min(set) == CHOOSE x \in set : \A y \in set : x <= y

(* A decoder that checks nothing: every byte counts as the digit of its    *)
(* low four table bits.                                                     *)
HexDecodeUnchecked(src, mem, dst) ==
    [mem |-> Write(mem, dst, [k \in 1..(Len(src) \div 2) |->
                                 ((HEX_LUT_LOWER(src[(2 * k) - 1]) % 16) * 16)
                                 + (HEX_LUT_LOWER(src[2 * k]) % 16)]),
     n |-> Len(src) \div 2]

(* hex_decode_checked runs an 8-digit loop while i + 8 <= len, then a       *)
(* 2-digit loop while i + 2 <= len, and returns 0 at the first group that   *)
(* holds a byte outside 0-9a-f.  The bytes decoded before that group stay   *)
(* at dst.  Returns the memory and the decoded length (0 on failure).       *)
hex_decode_checked(src, mem, dst) ==
    LET len == Len(src)
        groups == len \div 8
        pairs == len \div 2
        L(k) == HEX_LUT_LOWER(src[k])
        Bad8(c) == BitAnd(BitOrAll([i \in 1..8 |-> L(8 * c + i)]), 240) # 0
        Bad2(q) == BitAnd(BitOr(L(2 * q + 1), L(2 * q + 2)), 240) # 0
        stop8 == {c \in 0..(groups - 1) : Bad8(c)}
        stop2 == {q \in (4 * groups)..(pairs - 1) : Bad2(q)}
        written == IF stop8 # {} THEN 4 * Min(stop8)
                   ELSE IF stop2 # {} THEN Min(stop2)
                   ELSE pairs
    IN  [mem |-> Write(mem, dst, [k \in 1..written |-> (L(2 * k - 1) * 16) + L(2 * k)]),
         n |-> IF stop8 = {} /\ stop2 = {} THEN len \div 2 ELSE 0]

(* The 2 * len bytes hex_encode_fast puts at dst: the pair of src[i] at    *)
(* dst + 2 * i.                                                             *)
hex_encode_fast(src) ==
    [k \in 1..(2 * Len(src)) |-> HEX_PAIR_LUT(src[(k + 1) \div 2])[2 - (k % 2)]]

----------------------------------------------------------------------------
(* Fixed-width integers of the record.                                      *)
(* created_at is an i64, held as three limbs:                               *)
(*   value = hi * 2^48 + mid * 2^24 + lo,                                   *)
(*   hi in -32768..32767, mid and lo in 0..2^24-1.                          *)

Limb == 16777216

I64ToLeBytes(c) ==
    LET h == c.hi % 65536
    IN  <<c.lo % 256, (c.lo \div 256) % 256, c.lo \div 65536,
          c.mid % 256, (c.mid \div 256) % 256, c.mid \div 65536,
          h % 256, h \div 256>>

(* The eight bytes read as a u64: the top limb is not sign-extended. *)
I64FromLeBytesUnsigned(b) ==
    [lo  |-> b[1] + (256 * b[2]) + (65536 * b[3]),
     mid |-> b[4] + (256 * b[5]) + (65536 * b[6]),
     hi  |-> b[7] + (256 * b[8])]

I64FromLeBytes(b) ==
    LET h == b[7] + (256 * b[8])
    IN  [lo  |-> b[1] + (256 * b[2]) + (65536 * b[3]),
         mid |-> b[4] + (256 * b[5]) + (65536 * b[6]),
         hi  |-> IF h >= 32768 THEN h - 65536 ELSE h]

U16ToLeBytes(k) == <<k % 256, (k \div 256) % 256>>

U16FromLeBytes(b) == b[1] + (256 * b[2])

U32ToLeBytes(n) ==
    <<n % 256, (n \div 256) % 256, (n \div 65536) % 256, (n \div 16777216) % 256>>

----------------------------------------------------------------------------
(* serialize. *)

RECURSIVE CalcValuesSize(_, _)
CalcValuesSize(tag, j) ==
    IF j > Len(tag) THEN 0
    ELSE LET len == Len(tag[j])
         IN  (IF len < 127 THEN 1 ELSE 1 + varint_size(U64FromNat(len))) + len
             + CalcValuesSize(tag, j + 1)

RECURSIVE CalcTagsSize(_, _)
CalcTagsSize(tags, i) ==
    IF i > Len(tags) THEN 0
    ELSE 1 + CalcValuesSize(tags[i], 1) + CalcTagsSize(tags, i + 1)

(* A size that counts the tag-count varint only. *)
CalcMaxTagsSizeCountOnly(tags) == varint_size(U64FromNat(Len(tags)))

calc_max_tags_size(tags) == varint_size(U64FromNat(Len(tags))) + CalcTagsSize(tags, 1)

(* A packing step returns the memory and the pointer after the bytes it    *)
(* wrote: [mem, dst].                                                       *)

(* A literal run at dst: header, then the bytes (lines 332-336, and the    *)
(* same statements at 265-270 and 273-277).                                 *)
PackLiteral(mem, dst, bytes) ==
    LET len == Len(bytes)
        h == write_len_flag_ptr(mem, dst, U64FromNat(len), FALSE)
    IN  [mem |-> Write(h.mem, dst + h.n, bytes), dst |-> dst + h.n + len]

(* After hex_decode_checked has staged its bytes at header_ptr + 5 and     *)
(* returned d.n: lines 319-331 (and 258-271).                               *)
PackDecoded(d, header_ptr, bytes) ==
    IF d.n > 0
    THEN LET h == write_len_flag_ptr(d.mem, header_ptr, U64FromNat(d.n), TRUE)
         IN  [mem |-> IF h.n < 5
                      THEN Copy(h.mem, header_ptr + 5, header_ptr + h.n, d.n)
                      ELSE h.mem,
              dst |-> header_ptr + h.n + d.n]
    ELSE PackLiteral(d.mem, header_ptr, bytes)

(* One value of a tag: lines 312-337. *)
PackValue(mem, dst, bytes) ==
    IF might_be_hex(bytes)
    THEN PackDecoded(hex_decode_checked(bytes, mem, dst + 5), dst, bytes)
    ELSE PackLiteral(mem, dst, bytes)

(* for value in tag, for the values lo..hi of it, in order (the first half *)
(* of them, then the rest); p is the state [mem, dst] so far.               *)
RECURSIVE PackValues(_, _, _, _)

(* The values written last to first. *)
PackValuesReversed(p, tag, lo, hi) ==
    IF lo > hi THEN p
    ELSE IF lo = hi THEN PackValue(p.mem, p.dst, tag[lo])
    ELSE Eager(p, PackValues(PackValues(p, tag, ((lo + hi) \div 2) + 1, hi), tag,
                             lo, (lo + hi) \div 2))

PackValues(p, tag, lo, hi) ==
    IF lo > hi THEN p
    ELSE IF lo = hi THEN PackValue(p.mem, p.dst, tag[lo])
    ELSE Eager(p, PackValues(PackValues(p, tag, lo, (lo + hi) \div 2), tag,
                             ((lo + hi) \div 2) + 1, hi))

(* for tag in tags, from tag i on: the count byte, then the values. *)
RECURSIVE PackTags(_, _, _)
PackTags(p, tags, i) ==
    IF i > Len(tags) THEN p
    ELSE Eager(p, PackTags(PackValues([mem |-> Write(p.mem, p.dst, <<Len(tags[i]) % 256>>),
                                       dst |-> p.dst + 1], tags[i], 1, Len(tags[i])),
                           tags, i + 1))

(* Only the tags that hold a value are written. *)
PackTagsDroppingEmpty(mem, dst, tags) ==
    LET kept == SelectSeq(tags, LAMBDA t : t # <<>>)
        w == write_varint_ptr(mem, dst, U64FromNat(Len(kept)))
    IN  PackTags([mem |-> w.mem, dst |-> dst + w.n], kept, 1)

pack_tags_fast(mem, dst, tags) ==
    LET w == write_varint_ptr(mem, dst, U64FromNat(Len(tags)))
    IN  PackTags([mem |-> w.mem, dst |-> dst + w.n], tags, 1)

(* The fixed block with kind written before created_at. *)
PackFixedKindFirst(event, buf) ==
    LET base == Len(buf)
    IN  Write(Write(Write(buf, base, event.id \o event.pubkey \o event.sig),
                    base + 128, U16ToLeBytes(event.kind)),
              base + 130, I64ToLeBytes(event.created_at))

(* The fixed block, lines 229-237, written at index base of the memory    *)
(* mem of the Vec: base is buf.len(), and what mem holds from there on is   *)
(* what the spare capacity happens to hold.                                 *)
PackFixedAt(event, mem, base) ==
    Write(Write(Write(mem, base, event.id \o event.pubkey \o event.sig),
                base + 128, I64ToLeBytes(event.created_at)),
          base + 136, U16ToLeBytes(event.kind))

(* The fixed block appended to a buf with nothing behind its length. *)
PackFixed(event, buf) == PackFixedAt(event, buf, Len(buf))

(* The tag-section length written, and the tag data left where             *)
(* pack_tags_fast put it.                                                   *)
PlaceTagLenNoMove(pt, tag_len_ptr) ==
    [mem |-> write_varint_ptr(pt.mem, tag_len_ptr, U64FromNat(pt.dst - (tag_len_ptr + 5))).mem,
     dst |-> pt.dst]

(* The tag-section length written in front of the tag data that            *)
(* pack_tags_fast left 5 bytes further on: lines 245-250.                   *)
PlaceTagLen(pt, tag_len_ptr) ==
    LET tag_data_start == tag_len_ptr + 5
        tag_data_len == pt.dst - tag_data_start
        wv == write_varint_ptr(pt.mem, tag_len_ptr, U64FromNat(tag_data_len))
    IN  IF wv.n < 5
        THEN [mem |-> Copy(wv.mem, tag_data_start, tag_len_ptr + wv.n, tag_data_len),
              dst |-> tag_len_ptr + wv.n + tag_data_len]
        ELSE [mem |-> wv.mem, dst |-> pt.dst]

(* The content run: lines 252-278. *)
PackContent(mem, ptr, content_bytes) ==
    IF might_be_hex(content_bytes)
    THEN PackDecoded(hex_decode_checked(content_bytes, mem, ptr + 5), ptr, content_bytes)
    ELSE PackLiteral(mem, ptr, content_bytes)

(* The content run after the tag section t = [mem, dst]. *)
PackContentAfter(t, content_bytes) == Eager(t, PackContent(t.mem, t.dst, content_bytes))

(* The unsafe block of serialize: the memory of buf after all writes (its   *)
(* length is one past the highest index written) and the final ptr.         *)
SerializeMem(event, buf) ==
    LET tag_len_ptr == Len(buf) + 138
    IN  PackContentAfter(
            PlaceTagLen(pack_tags_fast(PackFixed(event, buf), tag_len_ptr + 5, event.tags),
                        tag_len_ptr),
            event.content)

(* A serialize that writes from the start of the Vec's memory. *)
SerializeMemFromStart(event, mem, base) ==
    PackContentAfter(
        PlaceTagLen(pack_tags_fast(PackFixedAt(event, mem, 0), 143, event.tags), 138),
        event.content)

(* The unsafe block of serialize on a Vec of length base whose memory is   *)
(* mem: the first base bytes are the Vec's contents, the rest is spare      *)
(* capacity with the bytes earlier uses left in it.                         *)
SerializeMemAt(event, mem, base) ==
    PackContentAfter(
        PlaceTagLen(pack_tags_fast(PackFixedAt(event, mem, base), base + 143, event.tags),
                    base + 138),
        event.content)

(* buf.set_len(original_len + written) *)
SetLen(r) == SubSeq(r.mem, 1, r.dst)

(* buf after serialize(event, &mut buf). *)
serialize(event, buf) == SetLen(SerializeMem(event, buf))

(* A length prefix that counts its own 4 bytes. *)
WriteEventLenCountingPrefix(buf, len_pos) ==
    Write(buf, len_pos, U32ToLeBytes(Len(buf) - len_pos))

(* event_len written back at len_pos: lines 523-526. *)
WriteEventLen(buf, len_pos) ==
    Write(buf, len_pos, U32ToLeBytes(Len(buf) - len_pos - 4))

RECURSIVE SerializeBatchLoop(_, _, _)
SerializeBatchLoop(events, buf, i) ==
    IF i > Len(events) THEN buf
    ELSE Eager(buf, SerializeBatchLoop(events,
                        WriteEventLen(serialize(events[i], buf \o <<0, 0, 0, 0>>), Len(buf)),
                        i + 1))

serialize_batch(events) == SerializeBatchLoop(events, U32ToLeBytes(Len(events)), 1)

----------------------------------------------------------------------------
(* Reading the input.  M = [data, junk, build]: data is the slice handed to *)
(* the decoder, junk the bytes that happen to follow it in memory (zero     *)
(* bytes after them), build is "debug" (arithmetic overflow panics) or      *)
(* "release" (it wraps).  A read at an index >= Len(data) is out of bounds  *)
(* and returns whatever is there.                                           *)

Rd(M, idx) ==
    IF idx < Len(M.data) THEN M.data[idx + 1]
    ELSE IF idx - Len(M.data) < Len(M.junk) THEN M.junk[idx - Len(M.data) + 1]
    ELSE 0

RdBytes(M, at, n) == [i \in 1..n |-> Rd(M, at + i - 1)]

(* The loop of read_varint_ptr; max_len is a U64. *)
RECURSIVE ReadVarintLoop(_, _, _, _, _, _, _)
ReadVarintLoop(M, src, max_len, result, shift, pos, oob) ==
    IF ~U64Gt(max_len, U64FromNat(pos))
    THEN [value |-> U64FromNat(0), n |-> 0, oob |-> oob, panic |-> FALSE]
    ELSE LET byte == Rd(M, src + pos)
             o == oob \/ (src + pos >= Len(M.data))
         IN  IF shift >= 64 /\ M.build = "debug"
             THEN [value |-> result, n |-> 0, oob |-> o, panic |-> TRUE]
             ELSE LET r == U64OrShl(result, byte % 128, shift % 64)
                  IN  IF byte < 128
                      THEN [value |-> r, n |-> pos + 1, oob |-> o, panic |-> FALSE]
                      ELSE ReadVarintLoop(M, src, max_len, r, shift + 7, pos + 1, o)

read_varint_ptr(M, src, max_len) ==
    ReadVarintLoop(M, src, max_len, U64FromNat(0), 0, 0, FALSE)

(* max_len is the usize the caller passes (a natural of the model). *)
read_len_flag_ptr(M, src, max_len) ==
    LET header == Rd(M, src)
        o == src >= Len(M.data)
        is_hex == header >= 128
        len_or_marker == header % 128
    IN  IF len_or_marker < 127
        THEN [len |-> U64FromNat(len_or_marker), is_hex |-> is_hex, n |-> 1,
              oob |-> o, panic |-> FALSE]
        ELSE IF max_len = 0 /\ M.build = "debug"
        THEN [len |-> U64FromNat(0), is_hex |-> is_hex, n |-> 1,
              oob |-> o, panic |-> TRUE]
        ELSE LET v == read_varint_ptr(M, src + 1,
                          IF max_len = 0 THEN U64Wrapped(1) ELSE U64FromNat(max_len - 1))
             IN  [len |-> v.value, is_hex |-> is_hex, n |-> 1 + v.n,
                  oob |-> o \/ v.oob, panic |-> v.panic]

----------------------------------------------------------------------------
(* deserialize.  Memory is taken to be unlimited: an allocation fails only  *)
(* by the capacity-overflow panic of Vec/String (more than isize::MAX       *)
(* bytes).  A result is [status, ..., oob]; status is "Ok", "TooShort",     *)
(* "InvalidTagData", "Panic" (a Rust panic) or "Fault" (a copy of 2^31 or   *)
(* more bytes that the input does not hold); oob tells whether a byte       *)
(* outside the input slice was read.                                        *)

(* isize::MAX div 24, 24 being the size of a Vec<String>: 0x0555555555555555. *)
MaxTagCapacity == [i \in 1..64 |-> IF i <= 59 /\ i % 2 = 1 THEN 1 ELSE 0]

(* The string built from the run of len bytes at index at: lines 483-501.  *)
(* len has passed the caller's bounds check.                                *)
FillString(M, at, len, is_hex) ==
    IF ~U64IsSmall(len)
    THEN [status |-> IF len[64] = 1 /\ (~is_hex \/ M.build = "debug") THEN "Panic"
                     ELSE IF is_hex /\ len[64] = 0 /\ len[63] = 1 THEN "Panic"
                     ELSE "Fault",
          s |-> <<>>, oob |-> FALSE]
    ELSE LET n == U64ToNat(len)
             run == RdBytes(M, at, n)
         IN  [status |-> "Ok",
              s |-> IF is_hex THEN hex_encode_fast(run) ELSE run,
              oob |-> n > 0 /\ at + n > Len(M.data)]

RECURSIVE UnpackValues(_, _, _, _, _, _, _, _)

(* One value, after its header h has been read: lines 477-503. *)
UnpackValue(M, ptr, max_len, values, value_count, j, pos, oob, h) ==
    LET pos1 == pos + h.n
        sum == U64Add(U64FromNat(pos1), h.len)
        o == oob \/ h.oob
        Stop(st) == [status |-> st, values |-> values, pos |-> pos1, oob |-> o]
    IN  IF h.panic THEN Stop("Panic")
        ELSE IF sum.overflow /\ M.build = "debug" THEN Stop("Panic")
        ELSE IF U64Gt(sum.v, U64FromNat(max_len)) THEN Stop("InvalidTagData")
        ELSE LET f == FillString(M, ptr + pos1, h.len, h.is_hex)
             IN  IF f.status # "Ok" THEN Stop(f.status)
                 ELSE UnpackValues(M, ptr, max_len,
                          [values EXCEPT ![j + 1] = f.s], value_count, j + 1,
                          pos1 + U64ToNat(h.len),
                          o \/ f.oob)

(* The inner loop, for j in 0..value_count: lines 474-504. *)
UnpackValues(M, ptr, max_len, values, value_count, j, pos, oob) ==
    IF j >= value_count
    THEN [status |-> "Ok", values |-> values, pos |-> pos, oob |-> oob]
    ELSE UnpackValue(M, ptr, max_len, values, value_count, j, pos, oob,
                     read_len_flag_ptr(M, ptr + pos, max_len - pos))

RECURSIVE UnpackTags(_, _, _, _, _, _, _, _)

(* One tag whose values are not cut back to value_count. *)
UnpackTagNoTruncate(M, ptr, max_len, tags1, tag_count, i, value_count, u) ==
    IF u.status # "Ok"
    THEN [status |-> u.status, tags |-> [tags1 EXCEPT ![i + 1] = u.values],
          oob |-> u.oob]
    ELSE UnpackTags(M, ptr, max_len, [tags1 EXCEPT ![i + 1] = u.values],
                    tag_count, i + 1, u.pos, u.oob)

(* One tag, after its values have been read with result u: line 505 and    *)
(* the next turn of the loop.                                               *)
UnpackTag(M, ptr, max_len, tags1, tag_count, i, value_count, u) ==
    IF u.status # "Ok"
    THEN [status |-> u.status, tags |-> [tags1 EXCEPT ![i + 1] = u.values],
          oob |-> u.oob]
    ELSE UnpackTags(M, ptr, max_len,
             [tags1 EXCEPT ![i + 1] = SubSeq(u.values, 1, value_count)],
             tag_count, i + 1, u.pos, u.oob)

(* The outer loop, for i in 0..tag_count: lines 455-509. tag_count is a U64. *)
UnpackTags(M, ptr, max_len, tags, tag_count, i, pos, oob) ==
    IF ~U64Gt(tag_count, U64FromNat(i))
    THEN [status |-> "Ok", tags |-> SubSeq(tags, 1, i), oob |-> oob]
    ELSE IF pos >= max_len
    THEN [status |-> "InvalidTagData", tags |-> tags, oob |-> oob]
    ELSE LET value_count == Rd(M, ptr + pos)
             tags1 == IF i >= Len(tags) THEN Append(tags, <<>>) ELSE tags
             values == tags1[i + 1]
             values1 == IF Len(values) < value_count
                        THEN values \o [k \in 1..(value_count - Len(values)) |-> <<>>]
                        ELSE values
         IN  UnpackTag(M, ptr, max_len, tags1, tag_count, i, value_count,
                       UnpackValues(M, ptr, max_len, values1, value_count, 0, pos + 1, oob))

(* max_len is the tag-section length, already checked against the input. *)
unpack_tags_into(M, ptr, max_len, tags) ==
    IF max_len = 0
    THEN [status |-> "Ok", tags |-> <<>>, oob |-> FALSE]
    ELSE LET v == read_varint_ptr(M, ptr, U64FromNat(max_len))
         IN  IF v.panic THEN [status |-> "Panic", tags |-> tags, oob |-> v.oob]
             ELSE IF v.n = 0 THEN [status |-> "InvalidTagData", tags |-> tags, oob |-> v.oob]
             ELSE IF U64Gt(v.value, MaxTagCapacity)
             THEN [status |-> "Panic", tags |-> tags, oob |-> v.oob]
             ELSE UnpackTags(M, ptr, max_len, tags, v.value, 0, v.n, v.oob)

(* The content string: lines 407-423.  content_len has passed the check   *)
(* against remaining.                                                       *)
FillContent(M, at, content_len, content_is_hex) ==
    IF ~U64IsSmall(content_len)
    THEN [status |-> IF content_len[64] = 1 /\ (~content_is_hex \/ M.build = "debug")
                     THEN "Panic"
                     ELSE IF content_is_hex /\ content_len[64] = 0 /\ content_len[63] = 1
                     THEN "Panic"
                     ELSE "Fault",
          s |-> <<>>, oob |-> FALSE]
    ELSE LET n == U64ToNat(content_len)
             run == RdBytes(M, at, n)
         IN  [status |-> "Ok",
              s |-> IF content_is_hex THEN hex_encode_fast(run) ELSE run,
              oob |-> n > 0 /\ at + n > Len(M.data)]

(* ReadContent that accepts a content run only where it ends the input. *)
ReadContentToEnd(M, e1, ptr2, oob, t) ==
    LET len == Len(M.data)
        e2 == [e1 EXCEPT !.tags = t.tags]
        h == read_len_flag_ptr(M, ptr2, len - ptr2)
        ptr3 == ptr2 + h.n
        o == oob \/ t.oob \/ h.oob
        Stop2(st) == [status |-> st, event |-> e2, oob |-> o]
    IN  IF t.status # "Ok" THEN [status |-> t.status, event |-> e2, oob |-> oob \/ t.oob]
        ELSE IF h.panic THEN Stop2("Panic")
        ELSE IF ptr3 > len /\ M.build = "debug" THEN Stop2("Panic")
        ELSE IF h.len # (IF ptr3 > len THEN U64Wrapped(ptr3 - len) ELSE U64FromNat(len - ptr3))
        THEN Stop2("TooShort")
        ELSE LET f == FillContent(M, ptr3, h.len, h.is_hex)
             IN  IF f.status # "Ok" THEN Stop2(f.status)
                 ELSE [status |-> "Ok", event |-> [e2 EXCEPT !.content = f.s],
                       oob |-> o \/ f.oob]

(* After the tag section has been unpacked with result t: lines 395-426.  *)
(* e1 is the record with its fixed fields set, ptr2 the index after the tag *)
(* section, oob what the calls before have recorded.                        *)
ReadContent(M, e1, ptr2, oob, t) ==
    LET len == Len(M.data)
        e2 == [e1 EXCEPT !.tags = t.tags]
        h == read_len_flag_ptr(M, ptr2, len - ptr2)
        ptr3 == ptr2 + h.n
        o == oob \/ t.oob \/ h.oob
        Stop2(st) == [status |-> st, event |-> e2, oob |-> o]
    IN  IF t.status # "Ok" THEN [status |-> t.status, event |-> e2, oob |-> oob \/ t.oob]
        ELSE IF h.panic THEN Stop2("Panic")
        ELSE IF ptr3 > len /\ M.build = "debug" THEN Stop2("Panic")
        ELSE IF U64Gt(h.len, IF ptr3 > len THEN U64Wrapped(ptr3 - len)
                             ELSE U64FromNat(len - ptr3))
        THEN Stop2("TooShort")
        ELSE LET f == FillContent(M, ptr3, h.len, h.is_hex)
             IN  IF f.status # "Ok" THEN Stop2(f.status)
                 ELSE [status |-> "Ok", event |-> [e2 EXCEPT !.content = f.s],
                       oob |-> o \/ f.oob]

(* deserialize_into(data, event): the status, the record as the call leaves *)
(* it (partly overwritten when the call fails), and oob.                    *)
deserialize_into(M, event) ==
    LET len == Len(M.data)
    IN  IF len < FIXED_SIZE + 2
        THEN [status |-> "TooShort", event |-> event, oob |-> FALSE]
        ELSE
        LET e1 == [event EXCEPT
                      !.id = SubSeq(M.data, 1, 32),
                      !.pubkey = SubSeq(M.data, 33, 64),
                      !.sig = SubSeq(M.data, 65, 128),
                      !.created_at = I64FromLeBytes(SubSeq(M.data, 129, 136)),
                      !.kind = U16FromLeBytes(SubSeq(M.data, 137, 138))]
            v == read_varint_ptr(M, 138, U64FromNat(len - 138))
            ptr1 == 138 + v.n
            tag_len == U64ToNat(v.value)
            Stop1(st) == [status |-> st, event |-> e1, oob |-> v.oob]
        IN  IF v.panic THEN Stop1("Panic")
            ELSE IF v.n = 0 THEN Stop1("TooShort")
            ELSE IF U64Gt(v.value, U64FromNat(len - ptr1)) THEN Stop1("TooShort")
            ELSE ReadContent(M, e1, ptr1 + tag_len, v.oob,
                             unpack_tags_into(M, ptr1, tag_len, e1.tags))

(* The record deserialize starts from. *)
EmptyEvent ==
    [id |-> [i \in 1..32 |-> 0], pubkey |-> [i \in 1..32 |-> 0],
     created_at |-> [hi |-> 0, mid |-> 0, lo |-> 0], kind |-> 0,
     tags |-> <<>>, content |-> <<>>, sig |-> [i \in 1..64 |-> 0]]

(* What deserialize returns for the result r of deserialize_into: a failed *)
(* call returns no record (the event field is then <<>>), a successful one  *)
(* the one-element sequence of the decoded record.                          *)
Returned(r) ==
    [status |-> r.status,
     event |-> IF r.status = "Ok" THEN <<r.event>> ELSE <<>>,
     oob |-> r.oob]

deserialize(M) == Returned(deserialize_into(M, EmptyEvent))

(* A u32 read from 4 little-endian bytes, as a U64. *)
U32FromLeBytes(b) ==
    [i \in 1..64 |-> IF i > 32 THEN 0 ELSE (b[((i - 1) \div 8) + 1] \div (2 ^ ((i - 1) % 8))) % 2]

(* A failure that hands back the records decoded before it. *)
BatchErrPartial(st, events, oob) == [status |-> st, events |-> events, oob |-> oob]

(* return Err(..) in deserialize_batch: the Vec of the records decoded so   *)
(* far is dropped.                                                          *)
BatchErr(st, events, oob) == [status |-> st, events |-> <<>>, oob |-> oob]

RECURSIVE DeserializeBatchLoop(_, _, _, _, _, _)

(* events.push(deserialize(..)?) and ptr = ptr.add(event_len): lines       *)
(* 560-561; r is what deserialize returned, next the index after the record. *)
PushEvent(M, event_count, i, next, events, oob, r) ==
    IF r.status # "Ok" THEN BatchErr(r.status, events, oob \/ r.oob)
    ELSE DeserializeBatchLoop(M, event_count, i + 1, next, events \o r.event, oob \/ r.oob)

(* The loop of deserialize_batch, lines 546-562; event_count is a U64, ptr  *)
(* an index into M.data.  Each record is decoded from its own slice: what   *)
(* follows the slice in memory is the rest of the batch, then M.junk.       *)
DeserializeBatchLoop(M, event_count, i, ptr, events, oob) ==
    LET len == Len(M.data)
        event_len == U32FromLeBytes(SubSeq(M.data, ptr + 1, ptr + 4))
        ptr1 == ptr + 4
        n == U64ToNat(event_len)
    IN  IF ~U64Gt(event_count, U64FromNat(i))
        THEN [status |-> "Ok", events |-> events, oob |-> oob]
        ELSE IF len - ptr < 4 THEN BatchErr("TooShort", events, oob)
        ELSE IF U64Gt(event_len, U64FromNat(len - ptr1))
        THEN BatchErr("TooShort", events, oob)
        ELSE PushEvent(M, event_count, i, ptr1 + n, events, oob,
                       deserialize([data |-> SubSeq(M.data, ptr1 + 1, ptr1 + n),
                                    junk |-> SubSeq(M.data, ptr1 + n + 1, len) \o M.junk,
                                    build |-> M.build]))

(* Vec::with_capacity(event_count) is taken to succeed, whatever the count. *)
deserialize_batch(M) ==
    IF Len(M.data) < 4
    THEN [status |-> "TooShort", events |-> <<>>, oob |-> FALSE]
    ELSE DeserializeBatchLoop(M, U32FromLeBytes(SubSeq(M.data, 1, 4)), 0, 4, <<>>, FALSE)

----------------------------------------------------------------------------
(* Inputs of the model. *)

(* Bytes of a literal run that needs the varint form of the header. *)
LongLen == 130
(* Bytes of a hex-compressed run that needs the varint form of the header. *)
LongHexBytes == 128
(* Records in a batch. *)
MaxBatch == 3

Rep(b, n) == [i \in 1..n |-> b]

S_empty == <<>>
S_p == <<112>>
S_e == <<101>>
S_ab == <<97, 98>>
S_abcd1234 == <<97, 98, 99, 100, 49, 50, 51, 52>>
S_deadbeef == <<100, 101, 97, 100, 98, 101, 101, 102>>
S_DEADBEEF == <<68, 69, 65, 68, 66, 69, 69, 70>>
S_deadbeefcafe == S_deadbeef \o <<99, 97, 102, 101>>
S_deadbeefa == S_deadbeef \o <<97>>
S_deadbeefzz == S_deadbeef \o <<122, 122>>
S_deadbeefAB == S_deadbeefcafe \o <<65, 66>>
(* 16 characters, a z in the second group of eight. *)
S_deadbeefcafez123 == S_deadbeefcafe \o <<122, 49, 50, 51>>
S_Hello == <<72, 101, 108, 108, 111, 33>>
(* U+00E9, U+65E5, U+1F600 *)
S_utf8 == <<195, 169, 230, 151, 165, 240, 159, 152, 128>>
S_nul == <<0, 0, 0, 0>>
S_long == Rep(120, LongLen)
S_longhex == [i \in 1..(2 * LongHexBytes) |-> IF i % 2 = 1 THEN 102 ELSE 48 + (i % 10)]

Strings ==
    {S_empty, S_p, S_ab, S_abcd1234, S_deadbeef, S_DEADBEEF, S_deadbeefcafe,
     S_deadbeefa, S_deadbeefzz, S_deadbeefAB, S_deadbeefcafez123, S_Hello, S_utf8, S_nul, S_long, S_longhex}

TagLists ==
    { <<>>, << <<>> >>,
      << <<S_p, S_abcd1234>>, <<S_e, S_deadbeefcafe>> >>,
      << <<S_e, S_e, S_empty>>, <<>>, <<S_e, S_e, S_empty>> >>,
      << <<S_DEADBEEF, S_utf8, S_long>>, <<S_longhex, S_deadbeefzz>> >> }
    \cup { << <<s>> >> : s \in Strings }

Fixed1 ==
    [id |-> Rep(171, 32), pubkey |-> Rep(205, 32), sig |-> Rep(239, 64),
     created_at |-> [hi |-> 0, mid |-> 73, lo |-> 9831122], kind |-> 1]

(* created_at = -1, kind = 65535; the id begins with the u32 141. *)
Fixed2 ==
    [id |-> <<141, 0, 0, 0>> \o Rep(0, 28), pubkey |-> Rep(0, 32), sig |-> Rep(0, 64),
     created_at |-> [hi |-> -1, mid |-> Limb - 1, lo |-> Limb - 1], kind |-> 65535]

(* created_at = i64::MIN, kind = 256. *)
Fixed3 ==
    [id |-> Rep(255, 32), pubkey |-> Rep(128, 32), sig |-> Rep(1, 64),
     created_at |-> [hi |-> -32768, mid |-> 0, lo |-> 0], kind |-> 256]

(* created_at = i64::MAX, kind = 0; every byte of id, pubkey and sig is    *)
(* its own offset in the block.                                             *)
Fixed4 ==
    [id |-> [i \in 1..32 |-> i - 1], pubkey |-> [i \in 1..32 |-> 31 + i],
     sig |-> [i \in 1..64 |-> 63 + i],
     created_at |-> [hi |-> 32767, mid |-> Limb - 1, lo |-> Limb - 1], kind |-> 0]

Ev(f, tags, content) ==
    [id |-> f.id, pubkey |-> f.pubkey, created_at |-> f.created_at, kind |-> f.kind,
     tags |-> tags, content |-> content, sig |-> f.sig]

(* The number of values of the largest tag. *)
ManyValues == 256

Events ==
    { Ev(Fixed1, t, c) : t \in TagLists, c \in {S_Hello, S_deadbeef} }
    \cup { Ev(Fixed1, t, c) : t \in {<<>>, << <<S_p, S_abcd1234>>, <<S_e, S_deadbeefcafe>> >>},
                              c \in Strings }
    \cup { Ev(f, <<>>, c) : f \in {Fixed2, Fixed3, Fixed4}, c \in {S_empty, S_nul} }
    \cup { Ev(Fixed1, << [k \in 1..ManyValues |-> S_empty] >>, S_Hello) }

(* What may follow the input in memory, and the two builds. *)
Junks == { <<>>, <<5, 104, 105>>, <<127, 255, 255, 1>>, <<255, 3, 65>> }
Builds == {"debug", "release"}

(* The 138-byte fixed block of a record with the fields of f. *)
FixedBytes(f) ==
    f.id \o f.pubkey \o f.sig \o I64ToLeBytes(f.created_at) \o U16ToLeBytes(f.kind)

(* Inputs no encoder wrote: what follows the fixed block. *)
RawTails ==
    { <<1, 0>>,                    \* ends where the content header is expected
      <<2, 1, 1>>,                 \* ends where a value header is expected
      <<1, 0, 127>>,               \* content header 127 and no varint
      <<1, 0, 1, 255>>,            \* content run <<0xFF>>
      <<4, 1, 1, 1, 255, 0>>,      \* tag value run <<0xFF>>
      <<4, 1, 1, 2, 195, 0>>,      \* value header claims 2 bytes, 1 remains
      <<1, 0, 2, 195, 40>>,        \* content run <<0xC3, 0x28>>
      <<0, 0>>,                    \* tag section of length 0
      <<2, 127, 0, 0>>,            \* tag count 127 in a section of 2 bytes
      <<1, 0, 129, 171, 9, 9>>,    \* hex content run of 1 byte, then 2 more bytes
      <<1, 0, 5, 104, 105>>,       \* content header claims 5 bytes, 2 remain
      <<5, 0, 0>>,                 \* tag section claims 5 bytes, 2 remain
      <<128, 128>>,                \* tag-section length varint never ends
      <<1, 128, 0>>,               \* tag-count varint never ends
      <<1, 0, 128>>,               \* hex content run of 0 bytes
      <<1, 0, 131, 0, 255, 16>>,   \* hex content run of 3 bytes
      <<5, 1, 1, 130, 10, 188, 0>>,  \* hex tag value run of 2 bytes
      <<1, 0, 255, 2, 1, 35>>,     \* hex content run of 2 bytes, length as a varint
      <<1, 0, 255, 128, 2>> \o [i \in 1..256 |-> i - 1],  \* hex content run of all 256 bytes
      <<13, 1, 1, 127>> \o Rep(255, 9) \o <<1, 0>>,       \* value header claims 2^64 - 1 bytes
      <<13, 1, 1, 127, 243>> \o Rep(255, 8) \o <<1, 0>>,  \* value header claims 2^64 - 13 bytes
      <<13, 1, 1, 255>> \o Rep(128, 9) \o <<1, 0>>,       \* hex value header claims 2^63 bytes
      Rep(128, 11),                \* tag-section length varint never ends, 11 bytes
      <<4, 0, 9, 9, 9, 0>>,        \* no tags, 3 more bytes in the tag section
      <<3, 1, 0, 7, 1, 33>> }      \* one tag of no values, 1 more byte in the tag section

RawInputs == { FixedBytes(Fixed1) \o t : t \in RawTails }

BatchEvents ==
    { Ev(Fixed1, << <<S_p, S_abcd1234>>, <<S_e, S_deadbeefcafe>> >>, S_Hello),
      Ev(Fixed2, <<>>, S_nul),
      Ev(Fixed3, << <<>> >>, S_deadbeef) }

RECURSIVE SeqsUpTo(_, _)
SeqsUpTo(set, n) ==
    IF n = 0 THEN {<<>>}
    ELSE LET shorter == SeqsUpTo(set, n - 1)
         IN  shorter \cup { Append(q, x) : q \in {r \in shorter : Len(r) = n - 1}, x \in set }

BatchLists == SeqsUpTo(BatchEvents, MaxBatch)

----------------------------------------------------------------------------
(* The state machine: a caller that serializes a record or a batch and      *)
(* hands bytes to the decoders.                                             *)

VARIABLES
    op,       \* the last operation
    event,    \* the record given to serialize
    buf,      \* the Vec<u8> serialize filled
    events,   \* the records given to serialize_batch
    bbuf,     \* the Vec<u8> serialize_batch returned
    input,    \* what the last decoder call was given: [data, junk, build]
    res,      \* the result of deserialize
    bres,     \* the result of deserialize_batch
    rec,      \* the record a caller keeps and hands to deserialize_into
    prev,     \* rec as it was before the last deserialize_into
    ires,     \* the last deserialize_into on rec, and the calls made so far
    dec,      \* a deserialize running beside enc: [data, build, pc, res]
    enc,      \* a serialize running beside dec: [event, pc, mem, dst]
    call      \* a call of the varint and header functions: arguments and results

vars == <<op, event, buf, events, bbuf, input, res, bres, rec, prev, ires, dec, enc, call>>

(* What the calls on fresh buffers and records leave alone. *)
reused == <<rec, prev, ires, dec, enc, call>>

NoInput == [data |-> <<>>, junk |-> <<>>, build |-> "release"]
NoRes == [status |-> "none", event |-> <<>>, oob |-> FALSE]
NoBRes == [status |-> "none", events |-> <<>>, oob |-> FALSE]

Init ==
    /\ op = "init"
    /\ event = EmptyEvent
    /\ buf = <<>>
    /\ events = <<>>
    /\ bbuf = <<>>
    /\ input = NoInput
    /\ res = NoRes
    /\ bres = NoBRes
    /\ rec = EmptyEvent
    /\ prev = EmptyEvent
    /\ ires = [status |-> "none", oob |-> FALSE, before |-> "none", calls |-> 0]
    /\ dec = [data |-> <<>>, build |-> "release", pc |-> "idle", res |-> NoRes]
    /\ enc = [event |-> EmptyEvent, pc |-> "idle", mem |-> <<>>, dst |-> 0]
    /\ call = [fn |-> "none"]

(* let mut bytes = Vec::new(); serialize(&e, &mut bytes) *)
Serialize(e) ==
    /\ op = "init"
    /\ op' = "serialize"
    /\ event' = e
    /\ buf' = serialize(e, <<>>)
    /\ events' = <<>>
    /\ bbuf' = <<>>
    /\ input' = NoInput
    /\ res' = NoRes
    /\ bres' = NoBRes
    /\ UNCHANGED reused

(* deserialize(&bytes) *)
Deserialize(j, b) ==
    /\ op = "serialize"
    /\ op' = "deserialize"
    /\ input' = [data |-> buf, junk |-> j, build |-> b]
    /\ res' = deserialize(input')
    /\ UNCHANGED <<event, buf, events, bbuf, bres, reused>>

(* deserialize(&bytes[..n]) for n < bytes.len() *)
DeserializeTruncated ==
    /\ op = "serialize"
    /\ \E n \in 0..(Len(buf) - 1), j \in Junks, b \in Builds :
        /\ op' = "truncated"
        /\ input' = [data |-> SubSeq(buf, 1, n), junk |-> j, build |-> b]
        /\ res' = deserialize(input')
    /\ UNCHANGED <<event, buf, events, bbuf, bres, reused>>

(* deserialize(d) for bytes d that come from elsewhere *)
DeserializeRaw(d, j, b) ==
    /\ op = "init"
    /\ op' = "raw"
    /\ event' = EmptyEvent
    /\ buf' = <<>>
    /\ events' = <<>>
    /\ bbuf' = <<>>
    /\ input' = [data |-> d, junk |-> j, build |-> b]
    /\ res' = deserialize(input')
    /\ bres' = NoBRes
    /\ UNCHANGED reused

(* serialize_batch(&list) *)
SerializeBatch(list) ==
    /\ op = "init"
    /\ op' = "serialize_batch"
    /\ events' = list
    /\ bbuf' = serialize_batch(list)
    /\ event' = EmptyEvent
    /\ buf' = <<>>
    /\ input' = NoInput
    /\ res' = NoRes
    /\ bres' = NoBRes
    /\ UNCHANGED reused

(* deserialize_batch(&bytes) *)
DeserializeBatch(j, b) ==
    /\ op = "serialize_batch"
    /\ op' = "deserialize_batch"
    /\ input' = [data |-> bbuf, junk |-> j, build |-> b]
    /\ bres' = deserialize_batch(input')
    /\ UNCHANGED <<event, buf, events, bbuf, res, reused>>

(* Index in the batch encoding of the length prefix of record k (1-based); *)
(* for k = Len(list) + 1, the length of the encoding.                       *)
PrefixAt(list, k) == Len(serialize_batch(SubSeq(list, 1, k - 1)))

(* Cuts of a batch encoding: up to CutSpan bytes into each record's frame, *)
(* and the last bytes of the encoding.                                      *)
CutSpan == 5

BatchCuts(list) ==
    { n \in UNION { { PrefixAt(list, k) + d : d \in (0 - CutSpan)..CutSpan } :
                    k \in 1..(Len(list) + 1) } :
        n >= 0 /\ n < PrefixAt(list, Len(list) + 1) }

(* deserialize_batch(&bytes[..n]) for n < bytes.len() *)
DeserializeBatchTruncated ==
    /\ op = "serialize_batch"
    /\ \E n \in BatchCuts(events), b \in Builds :
        /\ op' = "batch_truncated"
        /\ input' = [data |-> SubSeq(bbuf, 1, n), junk |-> <<>>, build |-> b]
        /\ bres' = deserialize_batch(input')
    /\ UNCHANGED <<event, buf, events, bbuf, res, reused>>

(* The length of the single-record encoding of record k of the batch. *)
RecordLen(list, k) == Len(serialize(list[k], <<>>))

(* Values to put in place of the length prefix of the second record. *)
CorruptLens(list) ==
    IF Len(list) < 2 THEN {} ELSE
    ({ 0, 140, RecordLen(list, 2) - 1, RecordLen(list, 2) + 1, RecordLen(list, 2) + 4,
       RecordLen(list, 2) + 8, 65536, 2147483647 }
     \cup (IF Len(list) >= 3
           THEN { RecordLen(list, 2) + 4 + RecordLen(list, 3) - 1,
                  RecordLen(list, 2) + 4 + RecordLen(list, 3),
                  RecordLen(list, 2) + 4 + RecordLen(list, 3) + 1 }
           ELSE {}))
    \ { RecordLen(list, 2) }

(* deserialize_batch of the encoding with the length prefix of the second   *)
(* record overwritten by v.                                                 *)
DeserializeBatchCorrupted ==
    /\ op = "serialize_batch"
    /\ \E v \in CorruptLens(events), b \in Builds :
        /\ op' = "batch_corrupted"
        /\ input' = [data |-> Write(bbuf, PrefixAt(events, 2), U32ToLeBytes(v)),
                     junk |-> <<>>, build |-> b]
        /\ bres' = deserialize_batch(input')
    /\ UNCHANGED <<event, buf, events, bbuf, res, reused>>

(* deserialize_batch of a count, one valid record and one record that no   *)
(* encoder wrote, or of a count with nothing or too little after it.       *)
RawBatches ==
    { U32ToLeBytes(2) \o U32ToLeBytes(Len(g)) \o g \o U32ToLeBytes(Len(d)) \o d :
        g \in { serialize(e, <<>>) : e \in BatchEvents }, d \in RawInputs }
    \cup { <<>>, <<1>>, <<1, 0, 0>>, <<0, 0, 0, 0, 9>>, <<1, 0, 0, 0>>, <<1, 0, 0, 0, 141, 0, 0>>,
           <<255, 255, 255, 255>>, <<1, 0, 0, 0, 0, 0, 0, 0>> }

DeserializeBatchRaw(d, b) ==
    /\ op = "init"
    /\ op' = "batch_raw"
    /\ event' = EmptyEvent
    /\ buf' = <<>>
    /\ events' = <<>>
    /\ bbuf' = <<>>
    /\ input' = [data |-> d, junk |-> <<>>, build |-> b]
    /\ res' = NoRes
    /\ bres' = deserialize_batch(input')
    /\ UNCHANGED reused

(* Bytes that follow an encoding in the slice handed to the decoder. *)
Trailing == { <<0>>, <<255, 255, 255>>, <<5, 104, 105>>, FixedBytes(Fixed1) \o <<1, 0, 0>> }

(* deserialize(&[bytes, x].concat()) *)
DeserializeTrailing(x, j, b) ==
    /\ op = "serialize"
    /\ op' = "trailing"
    /\ input' = [data |-> buf \o x, junk |-> j, build |-> b]
    /\ res' = deserialize(input')
    /\ UNCHANGED <<event, buf, events, bbuf, bres, reused>>

(* deserialize_batch(&[bytes, x].concat()) *)
DeserializeBatchTrailing(x, b) ==
    /\ op = "serialize_batch"
    /\ op' = "batch_trailing"
    /\ input' = [data |-> bbuf \o x, junk |-> <<>>, build |-> b]
    /\ bres' = deserialize_batch(input')
    /\ UNCHANGED <<event, buf, events, bbuf, res, reused>>

(* What the spare capacity of a Vec may hold. *)
AppendStale == { <<>>, Rep(255, 8), [i \in 1..400 |-> i % 251] }

(* The most calls of serialize on one Vec after the first. *)
AppendCalls == 2

(* serialize(&e, &mut bytes) on the Vec the calls before have filled;       *)
(* events lists the records serialized into it so far.                      *)
SerializeAppend(e, stale) ==
    /\ op \in {"serialize", "append"}
    /\ Len(events) <= AppendCalls
    /\ op' = "append"
    /\ event' = e
    /\ events' = (IF op = "serialize" THEN <<event>> ELSE events) \o <<e>>
    /\ buf' = SetLen(SerializeMemAt(e, buf \o stale, Len(buf)))
    /\ UNCHANGED <<bbuf, input, res, bres, reused>>

(* Inputs for a record that is decoded into again and again: encodings of *)
(* records with many, few and no tags and values, and inputs that fail     *)
(* before, inside and after the tag section.                                *)
IntoInputs ==
    { serialize(e, <<>>) :
        e \in { Ev(Fixed1, << <<S_e, S_e, S_empty>>, <<>>, <<S_e, S_e, S_empty>> >>, S_Hello),
                Ev(Fixed1, << <<S_p, S_abcd1234>>, <<S_e, S_deadbeefcafe>> >>, S_deadbeef),
                Ev(Fixed3, << <<>> >>, S_utf8),
                Ev(Fixed2, <<>>, S_empty) } }
    \cup { FixedBytes(Fixed1) \o t :
             t \in { <<0, 0>>, <<4, 1, 1, 2, 195, 0>>, <<2, 127, 0, 0>>,
                     <<1, 0, 5, 104, 105>>, <<1, 0, 127>>, <<4, 1, 1, 1, 255, 0>> } }
    \cup { FixedBytes(Fixed2) }

(* The most calls made on one record. *)
IntoCalls == 3

(* What a call that ended with r = [status, event, oob] leaves in rec and  *)
(* ires.                                                                    *)
IntoDone(r) ==
    /\ rec' = r.event
    /\ ires' = [status |-> r.status, oob |-> r.oob,
                before |-> ires.status, calls |-> ires.calls + 1]

(* deserialize_into(d, &mut rec) on the record the calls before left.  A   *)
(* panic ends the use of the record.                                        *)
DeserializeInto(d, b) ==
    /\ op \in {"init", "into"}
    /\ ires.calls < IntoCalls
    /\ ires.status \in {"none", "Ok", "TooShort", "InvalidTagData"}
    /\ op' = "into"
    /\ input' = [data |-> d, junk |-> <<>>, build |-> b]
    /\ prev' = rec
    /\ IntoDone(deserialize_into(input', rec))
    /\ UNCHANGED <<event, buf, events, bbuf, res, bres, dec, enc, call>>

Next ==
    \/ \E e \in Events : Serialize(e)
    \/ \E j \in Junks, b \in Builds : Deserialize(j, b)
    \/ DeserializeTruncated
    \/ \E d \in RawInputs, j \in Junks, b \in Builds : DeserializeRaw(d, j, b)
    \/ \E list \in BatchLists : SerializeBatch(list)
    \/ \E j \in Junks, b \in Builds : DeserializeBatch(j, b)
    \/ DeserializeBatchTruncated
    \/ DeserializeBatchCorrupted
    \/ \E d \in RawBatches, b \in Builds : DeserializeBatchRaw(d, b)
    \/ \E d \in IntoInputs, b \in Builds : DeserializeInto(d, b)
    \/ \E e \in BatchEvents, stale \in AppendStale : SerializeAppend(e, stale)
    \/ \E x \in Trailing, j \in {<<>>, <<255, 3, 65>>}, b \in Builds : DeserializeTrailing(x, j, b)
    \/ \E x \in Trailing, b \in Builds : DeserializeBatchTrailing(x, b)

Spec == Init /\ [][Next]_vars

----------------------------------------------------------------------------
(* Two invocations on disjoint data that run side by side: a deserialize   *)
(* of the slice dec.data, and a serialize of enc.event into a fresh Vec    *)
(* whose memory (enc.mem, zero until written) lies right behind the slice. *)
(* serialize proceeds in three steps, and deserialize runs before, between *)
(* or after them.                                                           *)

InitInterleave ==
    /\ op = "interleave"
    /\ event = EmptyEvent /\ buf = <<>> /\ events = <<>> /\ bbuf = <<>>
    /\ input = NoInput /\ res = NoRes /\ bres = NoBRes
    /\ rec = EmptyEvent /\ prev = EmptyEvent
    /\ ires = [status |-> "none", oob |-> FALSE, before |-> "none", calls |-> 0]
    /\ call = [fn |-> "none"]
    /\ \E e \in BatchEvents, n \in 138..145, b \in Builds :
          /\ n <= Len(serialize(e, <<>>))
          /\ dec = [data |-> SubSeq(serialize(e, <<>>), 1, n), build |-> b,
                    pc |-> "ready", res |-> NoRes]
    /\ \E e \in { Ev(Fixed1, << <<S_p, S_abcd1234>>, <<S_e, S_deadbeefcafe>> >>, S_Hello),
                   Ev(Fixed2, <<>>, S_nul),
                   Ev(Fixed4, << <<>> >>, S_deadbeef) } :
          enc = [event |-> e, pc |-> "fixed", mem |-> <<>>, dst |-> 0]

(* deserialize(dec.data): what follows the slice in memory is what         *)
(* serialize has written there so far.                                      *)
DecodeBeside ==
    /\ dec.pc = "ready"
    /\ dec' = [dec EXCEPT
                  !.pc = "done",
                  !.res = deserialize([data |-> dec.data,
                                       junk |-> [i \in 1..Len(enc.mem) |->
                                                   IF enc.mem[i] < 0 THEN 0 ELSE enc.mem[i]],
                                       build |-> dec.build])]
    /\ UNCHANGED <<op, event, buf, events, bbuf, input, res, bres, rec, prev, ires, enc, call>>

(* serialize, lines 229-237: the fixed block. *)
EncodeFixed ==
    /\ enc.pc = "fixed"
    /\ enc' = [enc EXCEPT !.pc = "tags", !.mem = PackFixed(enc.event, <<>>), !.dst = 138]
    /\ UNCHANGED <<op, event, buf, events, bbuf, input, res, bres, rec, prev, ires, dec, call>>

(* serialize, lines 239-250: the tag section and its length. *)
EncodeTags ==
    /\ enc.pc = "tags"
    /\ enc' = [event |-> enc.event, pc |-> "content",
               mem |-> PlaceTagLen(pack_tags_fast(enc.mem, 143, enc.event.tags), 138).mem,
               dst |-> PlaceTagLen(pack_tags_fast(enc.mem, 143, enc.event.tags), 138).dst]
    /\ UNCHANGED <<op, event, buf, events, bbuf, input, res, bres, rec, prev, ires, dec, call>>

(* serialize, lines 252-281: the content run and set_len. *)
EncodeContent ==
    /\ enc.pc = "content"
    /\ enc' = [event |-> enc.event, pc |-> "done",
               mem |-> PackContent(enc.mem, enc.dst, enc.event.content).mem,
               dst |-> PackContent(enc.mem, enc.dst, enc.event.content).dst]
    /\ UNCHANGED <<op, event, buf, events, bbuf, input, res, bres, rec, prev, ires, dec, call>>

NextInterleave ==
    \/ DecodeBeside
    \/ EncodeFixed
    \/ EncodeTags
    \/ EncodeContent

SpecInterleave == InitInterleave /\ [][NextInterleave]_vars

----------------------------------------------------------------------------
(* The varint and header functions on their own.  call holds the arguments *)
(* of one call, and its results once it is done.                            *)

(* u64 values: the powers of two, the values just below them, 2^64 - 1,    *)
(* and the lengths around the one-byte limit of the header.                 *)
U64Values ==
    { [i \in 1..64 |-> IF i = k THEN 1 ELSE 0] : k \in 1..64 }
    \cup { [i \in 1..64 |-> IF i <= k THEN 1 ELSE 0] : k \in 0..64 }
    \cup { U64FromNat(n) : n \in {5, 126, 128, 129, 300, 16385, 2097153} }

(* The longest run of continuation bytes in a window. *)
WindowSpan == 12

InitCalls ==
    /\ op = "calls"
    /\ event = EmptyEvent /\ buf = <<>> /\ events = <<>> /\ bbuf = <<>>
    /\ input = NoInput /\ res = NoRes /\ bres = NoBRes
    /\ rec = EmptyEvent /\ prev = EmptyEvent
    /\ ires = [status |-> "none", oob |-> FALSE, before |-> "none", calls |-> 0]
    /\ dec = [data |-> <<>>, build |-> "release", pc |-> "idle", res |-> NoRes]
    /\ enc = [event |-> EmptyEvent, pc |-> "idle", mem |-> <<>>, dst |-> 0]
    /\ \/ \E v \in U64Values, b \in Builds :
             call = [fn |-> "varint", done |-> FALSE, v |-> v, build |-> b]
       \/ \E k \in 0..WindowSpan, c \in {128, 255},
              t \in {<<>>, <<0>>, <<1>>, <<127, 128>>}, b \in Builds :
             \E m \in 0..(k + Len(t)) :
                call = [fn |-> "window", done |-> FALSE, w |-> Rep(c, k) \o t,
                        max_len |-> m, build |-> b]
       \/ \E v \in U64Values, h \in BOOLEAN, b \in Builds :
             call = [fn |-> "len_flag", done |-> FALSE, len |-> v, is_hex |-> h, build |-> b]

(* write_varint_ptr(dst, v) into fresh memory, varint_size(v), and         *)
(* read_varint_ptr over the bytes written.                                  *)
VarintRoundTrip ==
    /\ call.fn = "varint" /\ ~call.done
    /\ call' = [fn |-> "varint", done |-> TRUE, v |-> call.v, build |-> call.build,
                bytes |-> write_varint_ptr(<<>>, 0, call.v).mem,
                n |-> write_varint_ptr(<<>>, 0, call.v).n,
                size |-> varint_size(call.v),
                back |-> read_varint_ptr(
                             [data |-> write_varint_ptr(<<>>, 0, call.v).mem, junk |-> <<>>,
                              build |-> call.build],
                             0, U64FromNat(write_varint_ptr(<<>>, 0, call.v).n))]
    /\ UNCHANGED <<op, event, buf, events, bbuf, input, res, bres, rec, prev, ires, dec, enc>>

(* read_varint_ptr(src, max_len) where the memory at src holds the bytes   *)
(* w: the window is the first max_len of them.                              *)
ReadWindow ==
    /\ call.fn = "window" /\ ~call.done
    /\ call' = [fn |-> "window", done |-> TRUE, w |-> call.w, max_len |-> call.max_len,
                build |-> call.build,
                back |-> read_varint_ptr(
                             [data |-> SubSeq(call.w, 1, call.max_len),
                              junk |-> SubSeq(call.w, call.max_len + 1, Len(call.w)),
                              build |-> call.build],
                             0, U64FromNat(call.max_len))]
    /\ UNCHANGED <<op, event, buf, events, bbuf, input, res, bres, rec, prev, ires, dec, enc>>

(* write_len_flag_ptr(dst, len, is_hex) into fresh memory, and             *)
(* read_len_flag_ptr over the bytes written.                                *)
LenFlagRoundTrip ==
    /\ call.fn = "len_flag" /\ ~call.done
    /\ call' = [fn |-> "len_flag", done |-> TRUE, len |-> call.len, is_hex |-> call.is_hex,
                build |-> call.build,
                bytes |-> write_len_flag_ptr(<<>>, 0, call.len, call.is_hex).mem,
                n |-> write_len_flag_ptr(<<>>, 0, call.len, call.is_hex).n,
                back |-> read_len_flag_ptr(
                             [data |-> write_len_flag_ptr(<<>>, 0, call.len, call.is_hex).mem,
                              junk |-> <<>>, build |-> call.build],
                             0, write_len_flag_ptr(<<>>, 0, call.len, call.is_hex).n)]
    /\ UNCHANGED <<op, event, buf, events, bbuf, input, res, bres, rec, prev, ires, dec, enc>>

NextCalls ==
    \/ VarintRoundTrip
    \/ ReadWindow
    \/ LenFlagRoundTrip

SpecCalls == InitCalls /\ [][NextCalls]_vars

----------------------------------------------------------------------------
(* The loops of the decoder, one turn at a time.  call holds the frames of *)
(* one call of deserialize or of deserialize_batch:                        *)
(*   fn, B        the function called; for deserialize_batch its input B,  *)
(*                bptr the index of the next length prefix, event_count,   *)
(*                event_len, pushed = events.len(), biters the turns of    *)
(*                its loop started so far;                                 *)
(*   M            the input of the call of deserialize that is running;    *)
(*   ptr, max_len, pos, i, j, tag_count, value_count                        *)
(*                the tag section and the locals of unpack_tags_into,      *)
(*                iters the turns of its two loops started so far;         *)
(*   src, vmax, result, shift, vpos, ret                                    *)
(*                the frame of read_varint_ptr: its arguments, its locals  *)
(*                and the place it returns to; vn is the byte count it     *)
(*                returned; is_hex is the flag of the header read last;    *)
(*   pc, status   the place reached, and what deserialize returned or the  *)
(*                whole call returns.                                      *)
(* The strings decoded on the way are not kept.                             *)

LoopTails ==
    RawTails
    \cup { <<6, 255, 255, 255, 255, 15, 0, 0>>,   \* tag count 2^32 - 1, room for one tag
           <<5, 100, 0, 0, 0, 0, 0>>,             \* tag count 100, room for four tags
           <<3, 1, 255, 0, 0>>,                   \* value count 255, room for one value
           <<7, 2, 2, 1, 97, 0, 1, 0, 1, 98>> }   \* two tags, three values

LoopInputs ==
    { FixedBytes(Fixed1) \o t : t \in LoopTails }
    \cup { serialize(e, <<>>) : e \in BatchEvents }
    \cup { <<>>, FixedBytes(Fixed1) }

LoopBatches ==
    { serialize_batch(l) : l \in { q \in BatchLists : Len(q) <= 2 } }
    \cup { U32ToLeBytes(c) \o U32ToLeBytes(Len(g)) \o g \o x :
             c \in {1, 2, 1000}, g \in { serialize(e, <<>>) : e \in BatchEvents },
             x \in {<<>>, <<0, 0, 0>>, <<0, 0, 0, 0>>, <<9, 0, 0, 0>>} }
    \cup { U32ToLeBytes(2) \o U32ToLeBytes(Len(d)) \o d \o <<0, 0, 0, 0>> :
             d \in { FixedBytes(Fixed1) \o t :
                       t \in { <<5, 100, 0, 0, 0, 0, 0>>, <<3, 1, 255, 0, 0>>, Rep(128, 11) } } }
    \cup { <<>>, <<1, 0, 0>>, <<255, 255, 255, 255>>, <<255, 255, 255, 255, 0, 0, 0>>,
           <<3, 0, 0, 0, 0, 0, 0, 0, 0, 0, 0, 0>> }

Frame(fn, B, M) ==
    [fn |-> fn, B |-> B, M |-> M, pc |-> "enter", status |-> "none",
     bptr |-> 0, event_count |-> U64FromNat(0), event_len |-> 0, pushed |-> 0, biters |-> 0,
     ptr |-> 0, max_len |-> 0, pos |-> 0, i |-> 0, j |-> 0,
     tag_count |-> U64FromNat(0), value_count |-> 0, iters |-> 0,
     src |-> 0, vmax |-> U64FromNat(0), result |-> U64FromNat(0), shift |-> 0, vpos |-> 0,
     ret |-> "none", vn |-> 0, is_hex |-> FALSE]

InitLoop ==
    /\ op = "loops"
    /\ event = EmptyEvent /\ buf = <<>> /\ events = <<>> /\ bbuf = <<>>
    /\ input = NoInput /\ res = NoRes /\ bres = NoBRes
    /\ rec = EmptyEvent /\ prev = EmptyEvent
    /\ ires = [status |-> "none", oob |-> FALSE, before |-> "none", calls |-> 0]
    /\ dec = [data |-> <<>>, build |-> "release", pc |-> "idle", res |-> NoRes]
    /\ enc = [event |-> EmptyEvent, pc |-> "idle", mem |-> <<>>, dst |-> 0]
    /\ \/ \E d \in LoopInputs, j \in {<<>>, <<255, 3, 65>>}, b \in Builds :
             call = Frame("deserialize", NoInput, [data |-> d, junk |-> j, build |-> b])
       \/ \E d \in LoopBatches, b \in Builds :
             call = [Frame("deserialize_batch", [data |-> d, junk |-> <<>>, build |-> b],
                           NoInput) EXCEPT !.pc = "batch"]

(* deserialize returns st, or panics: to the caller of deserialize, or to  *)
(* line 560 of deserialize_batch.                                           *)
Finish(c, st) ==
    [c EXCEPT !.pc = IF c.fn = "deserialize" THEN "done" ELSE "push", !.status = st]

(* The call read_varint_ptr(src, vmax), to return to the place ret. *)
CallVarint(c, src, vmax, ret) ==
    [c EXCEPT !.pc = "varint", !.src = src, !.vmax = vmax, !.ret = ret,
              !.result = U64FromNat(0), !.shift = 0, !.vpos = 0]

(* deserialize_into up to its call of read_varint_ptr: lines 358-382. *)
DeserializeEnter ==
    /\ call.pc = "enter"
    /\ call' = IF Len(call.M.data) < FIXED_SIZE + 2
               THEN Finish(call, "TooShort")
               ELSE CallVarint([call EXCEPT !.iters = 0], 138,
                               U64FromNat(Len(call.M.data) - 138), "tag_len")
    /\ UNCHANGED <<op, event, buf, events, bbuf, input, res, bres, rec, prev, ires, dec, enc>>

(* One turn of the loop of read_varint_ptr: lines 98-110. *)
VarintStep ==
    /\ call.pc = "varint"
    /\ LET byte == Rd(call.M, call.src + call.vpos)
           r == U64OrShl(call.result, byte % 128, call.shift % 64)
       IN  call' = IF ~U64Gt(call.vmax, U64FromNat(call.vpos))
                   THEN [call EXCEPT !.pc = call.ret, !.result = U64FromNat(0), !.vn = 0]
                   ELSE IF call.shift >= 64 /\ call.M.build = "debug"
                   THEN Finish(call, "Panic")
                   ELSE IF byte < 128
                   THEN [call EXCEPT !.pc = call.ret, !.result = r, !.vn = call.vpos + 1]
                   ELSE [call EXCEPT !.result = r, !.shift = call.shift + 7,
                                     !.vpos = call.vpos + 1]
    /\ UNCHANGED <<op, event, buf, events, bbuf, input, res, bres, rec, prev, ires, dec, enc>>

(* deserialize_into with the tag-section length read: lines 383-394. *)
TagLenStep ==
    /\ call.pc = "tag_len"
    /\ call' = IF call.vn = 0 THEN Finish(call, "TooShort")
               ELSE IF U64Gt(call.result, U64FromNat(Len(call.M.data) - (138 + call.vn)))
               THEN Finish(call, "TooShort")
               ELSE [call EXCEPT !.pc = "tags", !.ptr = 138 + call.vn,
                                 !.max_len = U64ToNat(call.result)]
    /\ UNCHANGED <<op, event, buf, events, bbuf, input, res, bres, rec, prev, ires, dec, enc>>

(* unpack_tags_into up to its call of read_varint_ptr: lines 435-442. *)
TagsEnter ==
    /\ call.pc = "tags"
    /\ call' = IF call.max_len = 0 THEN [call EXCEPT !.pc = "content"]
               ELSE CallVarint(call, call.ptr, U64FromNat(call.max_len), "tag_count")
    /\ UNCHANGED <<op, event, buf, events, bbuf, input, res, bres, rec, prev, ires, dec, enc>>

(* unpack_tags_into with the tag count read: lines 443-453. *)
TagCountStep ==
    /\ call.pc = "tag_count"
    /\ call' = IF call.vn = 0 THEN Finish(call, "InvalidTagData")
               ELSE IF U64Gt(call.result, MaxTagCapacity) THEN Finish(call, "Panic")
               ELSE [call EXCEPT !.pc = "tag", !.pos = call.vn, !.tag_count = call.result,
                                 !.i = 0]
    /\ UNCHANGED <<op, event, buf, events, bbuf, input, res, bres, rec, prev, ires, dec, enc>>

(* One turn of for i in 0..tag_count, up to the inner loop: lines 455-473; *)
(* when the range is exhausted, lines 507-509.                              *)
TagStep ==
    /\ call.pc = "tag"
    /\ call' = IF ~U64Gt(call.tag_count, U64FromNat(call.i))
               THEN [call EXCEPT !.pc = "content"]
               ELSE IF call.pos >= call.max_len
               THEN Finish([call EXCEPT !.iters = call.iters + 1], "InvalidTagData")
               ELSE [call EXCEPT !.pc = "value", !.iters = call.iters + 1,
                                 !.value_count = Rd(call.M, call.ptr + call.pos),
                                 !.pos = call.pos + 1, !.j = 0]
    /\ UNCHANGED <<op, event, buf, events, bbuf, input, res, bres, rec, prev, ires, dec, enc>>

(* read_len_flag_ptr(src, max_len) in the frame c, to return to the place  *)
(* ret: lines 126-136.  The short form returns at once, with the length in *)
(* result.                                                                  *)
CallLenFlag(c, src, max_len, ret) ==
    LET header == Rd(c.M, src)
    IN  IF header % 128 < 127
        THEN [c EXCEPT !.pc = ret, !.result = U64FromNat(header % 128), !.vn = 0,
                       !.is_hex = header >= 128]
        ELSE IF max_len = 0 /\ c.M.build = "debug"
        THEN Finish(c, "Panic")
        ELSE CallVarint([c EXCEPT !.is_hex = header >= 128], src + 1,
                        IF max_len = 0 THEN U64Wrapped(1) ELSE U64FromNat(max_len - 1), ret)

(* One turn of for j in 0..value_count, up to the header: lines 474-475;   *)
(* when the range is exhausted, line 505 and the next i.                    *)
ValueStep ==
    /\ call.pc = "value"
    /\ call' = IF call.j >= call.value_count
               THEN [call EXCEPT !.pc = "tag", !.i = call.i + 1]
               ELSE CallLenFlag([call EXCEPT !.iters = call.iters + 1],
                                call.ptr + call.pos, call.max_len - call.pos, "value_len")
    /\ UNCHANGED <<op, event, buf, events, bbuf, input, res, bres, rec, prev, ires, dec, enc>>

(* pos stays where the header is. *)
HeaderAdvanceNone(pos, header_bytes) == pos

(* pos += header_bytes: line 476. *)
HeaderAdvance(pos, header_bytes) == pos + header_bytes

(* The turn of the inner loop with the header read: lines 476-503. *)
ValueLenStep ==
    /\ call.pc = "value_len"
    /\ LET pos1 == HeaderAdvance(call.pos, 1 + call.vn)
           sum == U64Add(U64FromNat(pos1), call.result)
           f == FillString(call.M, call.ptr + pos1, call.result, call.is_hex).status
       IN  call' = IF sum.overflow /\ call.M.build = "debug"
                   THEN Finish([call EXCEPT !.pos = pos1], "Panic")
                   ELSE IF U64Gt(sum.v, U64FromNat(call.max_len))
                   THEN Finish([call EXCEPT !.pos = pos1], "InvalidTagData")
                   ELSE IF f # "Ok" THEN Finish([call EXCEPT !.pos = pos1], f)
                   ELSE [call EXCEPT !.pc = "value", !.pos = pos1 + U64ToNat(call.result),
                                     !.j = call.j + 1]
    /\ UNCHANGED <<op, event, buf, events, bbuf, input, res, bres, rec, prev, ires, dec, enc>>

(* deserialize_into after the tag section, up to the content header:       *)
(* lines 395-398.                                                           *)
ContentStep ==
    /\ call.pc = "content"
    /\ call' = CallLenFlag(call, call.ptr + call.max_len,
                           Len(call.M.data) - (call.ptr + call.max_len), "content_len")
    /\ UNCHANGED <<op, event, buf, events, bbuf, input, res, bres, rec, prev, ires, dec, enc>>

(* deserialize_into with the content header read: lines 399-426. *)
ContentLenStep ==
    /\ call.pc = "content_len"
    /\ LET len == Len(call.M.data)
           ptr3 == call.ptr + call.max_len + 1 + call.vn
           f == FillContent(call.M, ptr3, call.result, call.is_hex).status
       IN  call' = IF ptr3 > len /\ call.M.build = "debug" THEN Finish(call, "Panic")
                   ELSE IF U64Gt(call.result, IF ptr3 > len THEN U64Wrapped(ptr3 - len)
                                              ELSE U64FromNat(len - ptr3))
                   THEN Finish(call, "TooShort")
                   ELSE Finish(call, f)
    /\ UNCHANGED <<op, event, buf, events, bbuf, input, res, bres, rec, prev, ires, dec, enc>>

(* deserialize_batch before its loop: lines 531-544. *)
BatchEnter ==
    /\ call.pc = "batch"
    /\ call' = IF Len(call.B.data) < 4
               THEN [call EXCEPT !.pc = "done", !.status = "TooShort"]
               ELSE [call EXCEPT !.pc = "event", !.bptr = 4, !.pushed = 0,
                                 !.event_count = U32FromLeBytes(SubSeq(call.B.data, 1, 4))]
    /\ UNCHANGED <<op, event, buf, events, bbuf, input, res, bres, rec, prev, ires, dec, enc>>

(* One turn of for _ in 0..event_count, up to the call of deserialize:     *)
(* lines 546-560; when the range is exhausted, line 564.                    *)
BatchStep ==
    /\ call.pc = "event"
    /\ LET len == Len(call.B.data)
           event_len == U32FromLeBytes(SubSeq(call.B.data, call.bptr + 1, call.bptr + 4))
           ptr1 == call.bptr + 4
           n == U64ToNat(event_len)
           turn == [call EXCEPT !.biters = call.biters + 1]
       IN  call' = IF ~U64Gt(call.event_count, U64FromNat(call.pushed))
                   THEN [call EXCEPT !.pc = "done", !.status = "Ok"]
                   ELSE IF len - call.bptr < 4
                   THEN [turn EXCEPT !.pc = "done", !.status = "TooShort"]
                   ELSE IF U64Gt(event_len, U64FromNat(len - ptr1))
                   THEN [turn EXCEPT !.pc = "done", !.status = "TooShort"]
                   ELSE [turn EXCEPT !.pc = "enter", !.event_len = n,
                                     !.M = [data |-> SubSeq(call.B.data, ptr1 + 1, ptr1 + n),
                                            junk |-> SubSeq(call.B.data, ptr1 + n + 1, len)
                                                       \o call.B.junk,
                                            build |-> call.B.build]]
    /\ UNCHANGED <<op, event, buf, events, bbuf, input, res, bres, rec, prev, ires, dec, enc>>

(* events.push(deserialize(..)?) and ptr = ptr.add(event_len): lines       *)
(* 560-561, deserialize having returned status.                             *)
BatchPush ==
    /\ call.pc = "push"
    /\ call' = IF call.status # "Ok" THEN [call EXCEPT !.pc = "done"]
               ELSE [call EXCEPT !.pc = "event", !.bptr = call.bptr + 4 + call.event_len,
                                 !.pushed = call.pushed + 1]
    /\ UNCHANGED <<op, event, buf, events, bbuf, input, res, bres, rec, prev, ires, dec, enc>>

NextLoop ==
    \/ DeserializeEnter
    \/ VarintStep
    \/ TagLenStep
    \/ TagsEnter
    \/ TagCountStep
    \/ TagStep
    \/ ValueStep
    \/ ValueLenStep
    \/ ContentStep
    \/ ContentLenStep
    \/ BatchEnter
    \/ BatchStep
    \/ BatchPush

(* A call that has started runs on: the codec has no blocking operation    *)
(* and is not cancelled, so a step that is enabled is taken.                *)
SpecLoop == InitLoop /\ [][NextLoop]_vars /\ WF_vars(NextLoop)

----------------------------------------------------------------------------
(* Reading the documented layout back from an encoding, for the properties  *)
(* below: the module doc's "Layout (single event)".                         *)

RECURSIVE LayoutVarint(_, _)
LayoutVarint(b, at) ==
    IF b[at + 1] < 128 THEN [v |-> b[at + 1], n |-> 1]
    ELSE LET r == LayoutVarint(b, at + 1)
         IN  [v |-> (b[at + 1] - 128) + (128 * r.v), n |-> 1 + r.n]

(* The run whose header is at index at: hex flag, stored length, header    *)
(* size and stored bytes.                                                   *)
LayoutRun(b, at) ==
    LET header == b[at + 1]
        long == LayoutVarint(b, at + 1)
        len == IF header % 128 < 127 THEN header % 128 ELSE long.v
        hdr == IF header % 128 < 127 THEN 1 ELSE 1 + long.n
    IN  [hex |-> header >= 128, len |-> len, hdr |-> hdr,
         bytes |-> SubSeq(b, at + hdr + 1, at + hdr + len)]

(* Index of the content header: after the fixed block, the tag-section     *)
(* length and the tag section.                                              *)
LayoutContentAt(b) == 138 + LayoutVarint(b, 138).n + LayoutVarint(b, 138).v

(* Index of the header of the first value of the first tag, when the tag   *)
(* count fits one byte.                                                     *)
LayoutFirstValueAt(b) == 138 + LayoutVarint(b, 138).n + 2

(* Bytes a literal run of len bytes takes, header included. *)
LayoutLiteralSize(len) ==
    (IF len < 127 THEN 1 ELSE 1 + Len(VarintLoop(U64FromNat(len)))) + len

(* Text classes. *)
IsLowerHexDigit(c) == (c >= 48 /\ c <= 57) \/ (c >= 97 /\ c <= 102)
IsUpperHexDigit(c) == c >= 65 /\ c <= 70
IsLowerHexText(t) == \A i \in 1..Len(t) : IsLowerHexDigit(t[i])
IsUpperHexText(t) ==
    /\ \A i \in 1..Len(t) : IsLowerHexDigit(t[i]) \/ IsUpperHexDigit(t[i])
    /\ \E i \in 1..Len(t) : IsUpperHexDigit(t[i])
DigitValue(c) == IF c <= 57 THEN c - 48 ELSE c - 87

(* Well-formed UTF-8, as str::from_utf8 accepts it. *)
IsUtf8(t) ==
    LET n == Len(t)
        Cont(i) == t[i] >= 128 /\ t[i] <= 191
        Need(i) == IF t[i] < 128 THEN 0
                   ELSE IF t[i] >= 194 /\ t[i] <= 223 THEN 1
                   ELSE IF t[i] >= 224 /\ t[i] <= 239 THEN 2
                   ELSE IF t[i] >= 240 /\ t[i] <= 244 THEN 3
                   ELSE -1
        Second(i) == IF t[i] = 224 THEN t[i + 1] >= 160
                     ELSE IF t[i] = 237 THEN t[i + 1] <= 159
                     ELSE IF t[i] = 240 THEN t[i + 1] >= 144
                     ELSE IF t[i] = 244 THEN t[i + 1] <= 143
                     ELSE TRUE
    IN  \A i \in 1..n :
            IF Cont(i)
            THEN \E j \in 1..(i - 1) :
                    /\ ~Cont(j)
                    /\ \A k \in (j + 1)..i : Cont(k)
                    /\ Need(j) >= i - j
            ELSE /\ Need(i) >= 0
                 /\ i + Need(i) <= n
                 /\ \A k \in (i + 1)..(i + Need(i)) : Cont(k)
                 /\ Need(i) > 0 => Second(i)

(* The strings of a record. *)
StringsOf(e) == {e.content} \cup UNION { { e.tags[i][j] : j \in 1..Len(e.tags[i]) } : i \in 1..Len(e.tags) }

(* The runs of an encoding that the properties look at: the content run,   *)
(* and the first value of the first tag when there is one.  Each is the     *)
(* text given to serialize, where its header is, and the text decoded.      *)
HasFirstValue(e) == e.tags # <<>> /\ e.tags[1] # <<>>

Runs ==
    IF op \notin {"serialize", "deserialize"} THEN {}
    ELSE { [text |-> event.content, at |-> LayoutContentAt(buf),
            back |-> IF res.status = "Ok" THEN <<res.event[1].content>> ELSE <<>>] }
         \cup (IF HasFirstValue(event)
               THEN { [text |-> event.tags[1][1], at |-> LayoutFirstValueAt(buf),
                       back |-> IF res.status = "Ok" /\ HasFirstValue(res.event[1])
                                THEN <<res.event[1].tags[1][1]>> ELSE <<>>] }
               ELSE {})

IsLiteralRun(r) ==
    LET run == LayoutRun(buf, r.at)
    IN  ~run.hex /\ run.len = Len(r.text) /\ run.bytes = r.text

IsHexRun(r) ==
    LET run == LayoutRun(buf, r.at)
    IN  /\ run.hex
        /\ run.len = Len(r.text) \div 2
        /\ Len(run.bytes) = run.len
        /\ \A k \in 1..run.len :
               run.bytes[k] = (16 * DigitValue(r.text[(2 * k) - 1])) + DigitValue(r.text[2 * k])

DecodesBack(r) == op = "deserialize" => r.back = <<r.text>>

----------------------------------------------------------------------------
(* Properties. *)

(* C1: for every record with kind in 0..65535 and at most 255 values per    *)
(* tag, deserialize(serialize(r)) succeeds and returns a record equal to r  *)
(* in id, pubkey, sig, created_at, kind, tags and content.                  *)
C1_RoundTrip ==
    (op = "deserialize" /\ \A i \in 1..Len(event.tags) : Len(event.tags[i]) <= 255)
    => res.status = "Ok" /\ res.event = <<event>>

C1_Witness ==
    /\ op = "deserialize"
    /\ res.status = "Ok"
    /\ event.created_at.hi < 0
    /\ res.event[1].created_at = event.created_at

(* C2: deserialize of a strict prefix of a valid encoding returns an error  *)
(* (TooShort or InvalidTagData), never Ok with some record.                 *)
C2_TruncationFails ==
    op = "truncated" => res.status \in {"TooShort", "InvalidTagData"}

(* C3: deserialize and deserialize_batch never read a byte at an index at   *)
(* or beyond the length of their input.                                     *)
C3_NoReadPastInput ==
    ~res.oob /\ ~bres.oob

(* C4: a string of hex digits with an uppercase A-F among them is stored as *)
(* a literal run (hex flag clear, length of the text, bytes of the text)    *)
(* and decodes to the identical text.                                       *)
C4_UppercaseHexLiteral ==
    \A r \in Runs : IsUpperHexText(r.text) => IsLiteralRun(r) /\ DecodesBack(r)

C4_Witness ==
    /\ op = "deserialize"
    /\ \E r \in Runs : /\ r.text = S_deadbeefAB
                       /\ r.at = LayoutFirstValueAt(buf)
                       /\ IsLiteralRun(r)
                       /\ r.back = <<S_deadbeefAB>>

(* C5: a string of even length L >= 8 with every character in 0-9a-f is     *)
(* stored with the hex flag set and length L/2, followed by the L/2 bytes   *)
(* of its digit pairs; the run is strictly shorter than the literal run of  *)
(* the text, and it decodes to the identical text.                          *)
C5_LowercaseHexCompressed ==
    \A r \in Runs :
        (Len(r.text) >= 8 /\ Len(r.text) % 2 = 0 /\ IsLowerHexText(r.text))
        => /\ IsHexRun(r)
           /\ LayoutRun(buf, r.at).hdr + LayoutRun(buf, r.at).len < LayoutLiteralSize(Len(r.text))
           /\ DecodesBack(r)

C5_Witness ==
    /\ op = "deserialize"
    /\ \E r \in Runs : r.text = S_longhex /\ LayoutRun(buf, r.at).hdr > 1 /\ r.back = <<S_longhex>>

(* C6: a hex-looking string shorter than 8 characters, or of odd length,    *)
(* is stored as a literal run and round-trips unchanged.                    *)
C6_ShortOrOddHexLiteral ==
    \A r \in Runs :
        (r.text # <<>> /\ IsLowerHexText(r.text) /\ (Len(r.text) < 8 \/ Len(r.text) % 2 = 1))
        => IsLiteralRun(r) /\ DecodesBack(r)

C6_Witness ==
    /\ op = "deserialize"
    /\ \E r \in Runs : r.text = S_deadbeefa /\ r.back = <<S_deadbeefa>>

(* C7: deserialize never returns a record that holds a string which is not  *)
(* valid UTF-8: an input with such a literal run fails.                     *)
C7_Utf8Validated ==
    res.status = "Ok" => \A t \in StringsOf(res.event[1]) : IsUtf8(t)

C7_InvalidUtf8Input ==
    /\ op = "raw"
    /\ res.status = "Ok"
    /\ res.event[1].content = <<255>>

(* The documented batch layout: u32 count, then per record a u32 length and *)
(* the record's single-record encoding.                                     *)
RECURSIVE LayoutFrames(_, _)
LayoutFrames(list, k) ==
    IF k > Len(list) THEN <<>>
    ELSE LET one == serialize(list[k], <<>>)
         IN  U32ToLeBytes(Len(one)) \o one \o LayoutFrames(list, k + 1)

LayoutU32(b, at) ==
    b[at + 1] + (256 * b[at + 2]) + (65536 * b[at + 3]) + (16777216 * b[at + 4])

(* C8: deserialize_batch(serialize_batch(list)) returns the same records in *)
(* the same order, the empty list included; the batch encoding is a u32     *)
(* little-endian count, then per record a u32 little-endian length equal to *)
(* the length of the record's single-record encoding, then those bytes.     *)
C8_BatchRoundTrip ==
    /\ op \in {"serialize_batch", "deserialize_batch"}
       => bbuf = U32ToLeBytes(Len(events)) \o LayoutFrames(events, 1)
    /\ op = "deserialize_batch" => bres.status = "Ok" /\ bres.events = events

C8_Witness ==
    /\ op = "deserialize_batch"
    /\ Len(events) = 3
    /\ events[1] # events[2]
    /\ bres.events = events

(* C9: deserialize_batch returns TooShort and no events when the input is   *)
(* shorter than 4 bytes, when fewer than 4 bytes remain where a length      *)
(* prefix is expected, or when a length prefix exceeds the bytes remaining; *)
(* a record that fails to decode fails the whole batch, and no failure      *)
(* returns the records decoded before it.                                   *)
C9_BatchErrors ==
    LET data == input.data
        second == 8 + LayoutU32(data, 4)
    IN  /\ (op \in {"batch_truncated", "batch_raw"} /\ Len(data) < 4)
           => bres.status = "TooShort"
        /\ op = "batch_truncated" => bres.status = "TooShort"
        /\ (op = "batch_corrupted"
            /\ LayoutU32(data, PrefixAt(events, 2)) > Len(data) - PrefixAt(events, 2) - 4)
           => bres.status = "TooShort"
        /\ (op = "batch_raw" /\ data \in RawBatches /\ Len(data) > 140
            /\ deserialize([data |-> SubSeq(data, second + 5, Len(data)), junk |-> <<>>,
                            build |-> input.build]).status # "Ok")
           => bres.status # "Ok"
        /\ bres.status # "Ok" => bres.events = <<>>

C9_Witness ==
    /\ op = "batch_truncated"
    /\ Len(events) = 3
    /\ Len(input.data) = PrefixAt(events, 3) + 2
    /\ bres.status = "TooShort"

(* C10: in the encoding of a batch of three records, any other value in the *)
(* length prefix of the second record makes deserialize_batch fail.         *)
C10_CorruptedPrefixFails ==
    (op = "batch_corrupted" /\ Len(events) = 3) => bres.status # "Ok"

----------------------------------------------------------------------------
(* C11: the first 138 bytes serialize writes are id (32 bytes), pubkey     *)
(* (32), sig (64), created_at as 8 bytes little-endian two's complement    *)
(* and kind as 2 bytes little-endian, in this order with nothing between;  *)
(* deserialize of the encoding returns these five fields as written.       *)

(* The number the bytes b[at+1 .. at+3] spell, least significant first. *)
Layout24(b, at) == b[at + 1] + (256 * b[at + 2]) + (65536 * b[at + 3])

C11_FixedBlockLayout ==
    /\ op \in {"serialize", "deserialize"} =>
        /\ Len(buf) >= 138
        /\ SubSeq(buf, 1, 32) = event.id
        /\ SubSeq(buf, 33, 64) = event.pubkey
        /\ SubSeq(buf, 65, 128) = event.sig
        /\ Layout24(buf, 128) = event.created_at.lo
        /\ Layout24(buf, 131) = event.created_at.mid
        /\ buf[135] + (256 * buf[136]) = event.created_at.hi % 65536
        /\ buf[137] + (256 * buf[138]) = event.kind
    /\ op = "deserialize" =>
        /\ res.status = "Ok"
        /\ res.event[1].id = event.id
        /\ res.event[1].pubkey = event.pubkey
        /\ res.event[1].sig = event.sig
        /\ res.event[1].created_at = event.created_at
        /\ res.event[1].kind = event.kind

C11_Witness ==
    /\ op = "deserialize"
    /\ event.created_at.hi < 0
    /\ event.kind = 65535
    /\ SubSeq(buf, 129, 138) = <<255, 255, 255, 255, 255, 255, 255, 255, 255, 255>>
    /\ res.status = "Ok"
    /\ res.event[1].created_at = event.created_at
    /\ res.event[1].kind = 65535

----------------------------------------------------------------------------
(* The encoding b of record e read piece by piece: the fixed block, the    *)
(* varint T, T bytes that are the tag section as pack_tags_fast writes it  *)
(* on its own, one length/flag header and the content run, which ends the  *)
(* encoding.                                                                *)
LayoutEncoding(b, e) ==
    LET tlen == LayoutVarint(b, 138)
        section == SetLen(pack_tags_fast(<<>>, 0, e.tags))
        run == LayoutRun(b, LayoutContentAt(b))
    IN  /\ SubSeq(b, 1, 138) = FixedBytes(e)
        /\ tlen.v = Len(section)
        /\ tlen.n = (IF tlen.v < 128 THEN 1 ELSE IF tlen.v < 16384 THEN 2 ELSE 3)
        /\ SubSeq(b, 138 + tlen.n + 1, 138 + tlen.n + tlen.v) = section
        /\ Len(run.bytes) = run.len
        /\ Len(b) = 138 + tlen.n + tlen.v + run.hdr + run.len
        /\ run.hdr = (IF run.len < 127 THEN 1 ELSE IF run.len < 128 THEN 2
                      ELSE IF run.len < 16384 THEN 3 ELSE 4)
        /\ IF run.hex THEN hex_encode_fast(run.bytes) = e.content
                      ELSE run.bytes = e.content

(* The stored lengths of the second value of the first tag and of the      *)
(* second value of the second tag, when both tags hold two values.         *)
LayoutSecondValues(b) ==
    LET r1 == LayoutRun(b, LayoutFirstValueAt(b))
        a2 == LayoutFirstValueAt(b) + r1.hdr + r1.len
        r2 == LayoutRun(b, a2)
        a3 == a2 + r2.hdr + r2.len + 1
        r3 == LayoutRun(b, a3)
        r4 == LayoutRun(b, a3 + r3.hdr + r3.len)
    IN  <<r2.len, r4.len>>

(* C12: an encoding is the 138-byte fixed block, a varint T, the T bytes   *)
(* of the tag section, one length/flag header and the content run, with    *)
(* nothing between or after them, so its length is 138 + varint_size(T) +  *)
(* T + content header size + stored content length; for the tags           *)
(* [["p","abcd1234"],["e","deadbeefcafe"]] and content "Hello!" the values *)
(* "abcd1234" and "deadbeefcafe" take 4 and 6 bytes and the total is 165.  *)
C12_EncodingLayout ==
    op \in {"serialize", "deserialize"} =>
        /\ LayoutEncoding(buf, event)
        /\ (/\ event.tags = << <<S_p, S_abcd1234>>, <<S_e, S_deadbeefcafe>> >>
            /\ event.content = S_Hello)
           => (LayoutSecondValues(buf) = <<4, 6>> /\ Len(buf) = 165)

C12_Witness ==
    /\ op = "serialize"
    /\ event.tags = << <<S_p, S_abcd1234>>, <<S_e, S_deadbeefcafe>> >>
    /\ event.content = S_Hello
    /\ LayoutVarint(buf, 138) = [v |-> 19, n |-> 1]
    /\ Len(buf) = 165

(* C12 as stated: the same, with a total of 164 bytes. *)
C12_Total164 ==
    op \in {"serialize", "deserialize"} =>
        /\ LayoutEncoding(buf, event)
        /\ (/\ event.tags = << <<S_p, S_abcd1234>>, <<S_e, S_deadbeefcafe>> >>
            /\ event.content = S_Hello)
           => (LayoutSecondValues(buf) = <<4, 6>> /\ Len(buf) = 164)

----------------------------------------------------------------------------
(* C13: whatever the caller's record held before (tags, values and content *)
(* of earlier calls, or what a failed call left behind), deserialize_into  *)
(* ends as deserialize of the same input does, and when it succeeds the    *)
(* record equals the record deserialize returns.                            *)
C13_IntoEqualsFresh ==
    op = "into" =>
        Returned([status |-> ires.status, event |-> rec, oob |-> ires.oob])
            = deserialize(input)

C13_Witness ==
    /\ op = "into"
    /\ ires.calls = 3
    /\ ires.status = "Ok"
    /\ ires.before = "InvalidTagData"
    /\ Len(prev.tags) > Len(rec.tags)
    /\ rec.tags # <<>>
    /\ Len(prev.tags[1]) > Len(rec.tags[1])
    /\ prev.content # rec.content

----------------------------------------------------------------------------
(* C14: a record with no tags and empty content is encoded in exactly 141  *)
(* bytes (the fixed block, tag-section length 1, tag count 0, content      *)
(* header 0) and decodes to itself; a record with one tag that holds no    *)
(* value decodes to a tag list of one empty tag, not to an empty list.     *)
C14_EmptyEdges ==
    /\ (op \in {"serialize", "deserialize"} /\ event.tags = <<>> /\ event.content = <<>>)
       => /\ Len(buf) = 141
          /\ SubSeq(buf, 139, 141) = <<1, 0, 0>>
          /\ op = "deserialize" => (res.status = "Ok" /\ res.event = <<event>>)
    /\ (op \in {"serialize", "deserialize"} /\ event.tags = << <<>> >>)
       => /\ SubSeq(buf, 139, 141) = <<2, 1, 0>>
          /\ op = "deserialize" =>
                /\ res.status = "Ok"
                /\ Len(res.event[1].tags) = 1
                /\ res.event[1].tags[1] = <<>>
                /\ res.event = <<event>>

C14_Witness ==
    /\ op = "deserialize"
    /\ event.tags = << <<>> >>
    /\ res.status = "Ok"
    /\ Len(res.event[1].tags) = 1
    /\ Len(res.event[1].tags[1]) = 0

----------------------------------------------------------------------------
(* C16: for a record with a tag of more than 255 values, serialize does    *)
(* not write the number of values modulo 256 as the tag's count byte, and  *)
(* deserialize of what serialize wrote does not succeed with a record      *)
(* other than the one serialized.                                           *)
C16_ManyValuesGuarded ==
    (op \in {"serialize", "deserialize"} /\ event.tags # <<>> /\ Len(event.tags[1]) > 255)
    => /\ buf[LayoutFirstValueAt(buf)] # Len(event.tags[1]) % 256
       /\ op = "deserialize" => ~(res.status = "Ok" /\ res.event # <<event>>)

----------------------------------------------------------------------------
(* C17: when a deserialize and a serialize on disjoint data run side by    *)
(* side, in any order of their steps, the deserialize returns what it      *)
(* returns when it runs alone (the memory behind its input untouched), the *)
(* serialize leaves the encoding it writes when it runs alone, and it      *)
(* writes nothing beyond the capacity it reserved in its own buffer.        *)
C17_InterleavingIndependent ==
    /\ dec.pc = "done" =>
          dec.res = deserialize([data |-> dec.data, junk |-> <<>>, build |-> dec.build])
    /\ enc.pc = "done" => SubSeq(enc.mem, 1, enc.dst) = serialize(enc.event, <<>>)
    /\ Len(enc.mem) <= FIXED_SIZE + 5 + calc_max_tags_size(enc.event.tags) + 5
                        + Len(enc.event.content)

----------------------------------------------------------------------------
(* C18: for every u64 v, write_varint writes exactly varint_size(v) bytes, *)
(* between 1 and 10 and no more than the set bits of v need; byte k holds  *)
(* bits 7(k-1) .. 7k-1 of v in its low seven bits, and its high bit is set *)
(* exactly when it is not the last; read_varint over these bytes returns v *)
(* and their number.                                                        *)
C18_VarintRoundTrip ==
    (call.fn = "varint" /\ call.done) =>
        /\ call.n = Len(call.bytes)
        /\ call.n = call.size
        /\ call.size \in 1..10
        /\ \A i \in 1..64 : call.v[i] = 1 => i <= 7 * call.size
        /\ call.size > 1 => \E i \in ((7 * call.size) - 6)..64 : call.v[i] = 1
        /\ \A k \in 1..call.size :
              /\ \A j \in 0..6 :
                    (call.bytes[k] \div (2 ^ j)) % 2
                        = (IF (7 * (k - 1)) + j + 1 <= 64
                           THEN call.v[(7 * (k - 1)) + j + 1] ELSE 0)
              /\ (call.bytes[k] >= 128) = (k < call.size)
        /\ ~call.back.panic
        /\ ~call.back.oob
        /\ call.back.n = call.size
        /\ \A i \in 1..64 : call.back.value[i] = call.v[i]

C18_Witness ==
    /\ call.fn = "varint"
    /\ call.done
    /\ \A i \in 1..64 : call.v[i] = 1
    /\ call.bytes = <<255, 255, 255, 255, 255, 255, 255, 255, 255, 1>>
    /\ call.back.n = 10
    /\ \A i \in 1..64 : call.back.value[i] = 1

(* C19: read_varint over a window of max_len bytes returns 0 bytes         *)
(* consumed exactly when none of the first max_len bytes has its high bit  *)
(* clear (max_len = 0 included), and then the value 0; it reads no byte at *)
(* an index >= max_len; a window that begins with the byte 0 gives value 0 *)
(* with 1 byte consumed.                                                    *)
C19_WindowSentinel ==
    (call.fn = "window" /\ call.done) =>
        /\ ~call.back.panic
        /\ (call.back.n = 0) = (\A i \in 1..call.max_len : call.w[i] >= 128)
        /\ call.back.n = 0 => \A i \in 1..64 : call.back.value[i] = 0
        /\ ~call.back.oob
        /\ (call.max_len >= 1 /\ call.w[1] = 0) =>
              (call.back.n = 1 /\ \A i \in 1..64 : call.back.value[i] = 0)

(* C20: for every length L and flag h, write_len_flag writes the one byte  *)
(* h * 128 + L when L < 127, and otherwise the byte h * 128 + 127 followed *)
(* by the varint of L (so for L = 127 too); read_len_flag over the bytes   *)
(* written returns L, h and their number.                                   *)
C20_LenFlagRoundTrip ==
    (call.fn = "len_flag" /\ call.done) =>
        /\ call.n = Len(call.bytes)
        /\ IF U64IsSmall(call.len) /\ U64ToNat(call.len) < 127
           THEN call.bytes = <<(IF call.is_hex THEN 128 ELSE 0) + U64ToNat(call.len)>>
           ELSE /\ call.bytes[1] = (IF call.is_hex THEN 128 ELSE 0) + 127
                /\ Tail(call.bytes) = VarintLoop(call.len)
        /\ ~call.back.panic
        /\ ~call.back.oob
        /\ call.back.is_hex = call.is_hex
        /\ call.back.n = call.n
        /\ \A i \in 1..64 : call.back.len[i] = call.len[i]

C20_Witness ==
    /\ call.fn = "len_flag"
    /\ call.done
    /\ call.len = U64FromNat(127)
    /\ call.is_hex
    /\ call.bytes = <<255, 127>>
    /\ call.back.n = 2
    /\ call.back.is_hex
    /\ U64ToNat(call.back.len) = 127

----------------------------------------------------------------------------
(* C21: a string of even length >= 8 whose first 8 characters are in 0-9a-f *)
(* and which holds a character outside 0-9a-f further on is stored as a     *)
(* literal run (hex flag clear, length of the text, bytes of the text); the *)
(* bytes the abandoned hex decode had put 5 bytes past the header are all   *)
(* overwritten by the run, none is left in it or behind it; the text        *)
(* decodes unchanged.                                                        *)

(* Even length >= 8, hex digits in the first 8 places, another byte later. *)
IsHexThenOther(t) ==
    /\ Len(t) >= 8
    /\ Len(t) % 2 = 0
    /\ \A i \in 1..8 : IsLowerHexDigit(t[i])
    /\ \E i \in 9..Len(t) : ~IsLowerHexDigit(t[i])

C21_HexFallbackLiteral ==
    \A r \in Runs :
        IsHexThenOther(r.text)
        => /\ IsLiteralRun(r)
           /\ DecodesBack(r)
           /\ PackValue(<<>>, 0, r.text).dst = LayoutLiteralSize(Len(r.text))
           /\ PackValue(<<>>, 0, r.text).mem
                = SubSeq(buf, r.at + 1, r.at + LayoutLiteralSize(Len(r.text)))
           /\ hex_decode_checked(r.text, <<>>, 5).n = 0
           /\ Len(hex_decode_checked(r.text, <<>>, 5).mem) > 5
           /\ Len(hex_decode_checked(r.text, <<>>, 5).mem) <= LayoutLiteralSize(Len(r.text))

C21_Witness ==
    /\ op = "deserialize"
    /\ \E r \in Runs : /\ r.text = S_deadbeefcafez123
                       /\ r.at = LayoutContentAt(buf)
                       /\ IsLiteralRun(r)
                       /\ Len(hex_decode_checked(r.text, <<>>, 5).mem) = 9
                       /\ r.back = <<S_deadbeefcafez123>>

----------------------------------------------------------------------------
(* C22: when deserialize succeeds on an input that holds a run (header and  *)
(* bytes inside the input) whose header has the hex flag set and the        *)
(* length n, the string it returns for the run                              *)
(* has exactly 2n characters, all in 0-9a-f: for each byte of the run its   *)
(* high-nibble digit, then its low-nibble digit.  This holds for n = 0, 1,  *)
(* 2, 3 as well, lengths no encoder writes, and for every byte value.       *)

(* The character of the nibble d. *)
LayoutDigit(d) == IF d < 10 THEN 48 + d ELSE 87 + d

(* text spells the bytes of run in lowercase hex. *)
IsHexOf(text, run) ==
    /\ Len(run.bytes) = run.len
    /\ Len(text) = 2 * run.len
    /\ IsLowerHexText(text)
    /\ \A k \in 1..run.len :
          /\ text[(2 * k) - 1] = LayoutDigit(run.bytes[k] \div 16)
          /\ text[2 * k] = LayoutDigit(run.bytes[k] % 16)

(* The input b holds at index at a header with the hex flag set, and the   *)
(* whole of the varint that follows the marker 127.                         *)
IsHexHeaderAt(b, at) ==
    /\ at < Len(b)
    /\ b[at + 1] >= 128
    /\ b[at + 1] = 255 => \E k \in (at + 2)..Len(b) : b[k] < 128

C22_HexRunExpands ==
    (op \in {"deserialize", "raw"} /\ res.status = "Ok") =>
        /\ IsHexHeaderAt(input.data, LayoutContentAt(input.data))
           => IsHexOf(res.event[1].content,
                      LayoutRun(input.data, LayoutContentAt(input.data)))
        /\ (HasFirstValue(res.event[1])
            /\ IsHexHeaderAt(input.data, LayoutFirstValueAt(input.data)))
           => IsHexOf(res.event[1].tags[1][1],
                      LayoutRun(input.data, LayoutFirstValueAt(input.data)))

C22_Witness ==
    /\ op = "raw"
    /\ res.status = "Ok"
    /\ IsHexHeaderAt(input.data, LayoutContentAt(input.data))
    /\ LayoutRun(input.data, LayoutContentAt(input.data)).len = 256
    /\ Len(res.event[1].content) = 512
    /\ SubSeq(res.event[1].content, 1, 4) = <<48, 48, 48, 49>>
    /\ SubSeq(res.event[1].content, 511, 512) = <<102, 102>>

----------------------------------------------------------------------------
(* The documented tag section, written out from the tags: the module doc's *)
(* "Layout (single event)" and the spec's tag-list layout.                  *)

(* The varint of a number below 2^31. *)
RECURSIVE LayoutVarintBytes(_)
LayoutVarintBytes(n) ==
    IF n < 128 THEN <<n>> ELSE <<(n % 128) + 128>> \o LayoutVarintBytes(n \div 128)

(* A value: its length/flag header and its run, hex-compressed when the    *)
(* text is an even number >= 8 of digits 0-9a-f.                            *)
LayoutValue(text) ==
    LET hex == Len(text) >= 8 /\ Len(text) % 2 = 0 /\ IsLowerHexText(text)
        len == IF hex THEN Len(text) \div 2 ELSE Len(text)
        flag == IF hex THEN 128 ELSE 0
    IN  (IF len < 127 THEN <<flag + len>> ELSE <<flag + 127>> \o LayoutVarintBytes(len))
        \o (IF hex
            THEN [k \in 1..len |->
                    (16 * DigitValue(text[(2 * k) - 1])) + DigitValue(text[2 * k])]
            ELSE text)

(* The values lo..hi of a tag, one after the other. *)
RECURSIVE LayoutValues(_, _, _)
LayoutValues(tag, lo, hi) ==
    IF lo > hi THEN <<>>
    ELSE IF lo = hi THEN LayoutValue(tag[lo])
    ELSE LayoutValues(tag, lo, (lo + hi) \div 2)
         \o LayoutValues(tag, ((lo + hi) \div 2) + 1, hi)

(* The tags from tag i on: one count byte, then the values. *)
RECURSIVE LayoutTags(_, _)
LayoutTags(tags, i) ==
    IF i > Len(tags) THEN <<>>
    ELSE <<Len(tags[i])>> \o LayoutValues(tags[i], 1, Len(tags[i])) \o LayoutTags(tags, i + 1)

(* C23: for tags of 0..255 values, the tag section serialize writes is      *)
(* varint(number of tags), then for each tag in list order one byte equal   *)
(* to its number of values and each value in order as a length/flag header  *)
(* and its run; deserialize rebuilds exactly as many tags, each with        *)
(* exactly as many values, in the same order.                                *)
C23_TagSectionLayout ==
    (op \in {"serialize", "deserialize"}
     /\ \A i \in 1..Len(event.tags) : Len(event.tags[i]) <= 255) =>
        /\ SubSeq(buf, 138 + LayoutVarint(buf, 138).n + 1,
                  138 + LayoutVarint(buf, 138).n + LayoutVarint(buf, 138).v)
             = LayoutVarintBytes(Len(event.tags)) \o LayoutTags(event.tags, 1)
        /\ op = "deserialize" =>
              /\ res.status = "Ok"
              /\ Len(res.event[1].tags) = Len(event.tags)
              /\ \A i \in 1..Len(event.tags) :
                    /\ Len(res.event[1].tags[i]) = Len(event.tags[i])
                    /\ \A j \in 1..Len(event.tags[i]) :
                          res.event[1].tags[i][j] = event.tags[i][j]

C23_Witness ==
    /\ op = "deserialize"
    /\ Len(event.tags) = 3
    /\ event.tags[2] = <<>>
    /\ Len(event.tags[3]) = 3
    /\ SubSeq(buf, 139, 150) = <<14, 3, 3, 1, 101, 1, 101, 0, 0, 3, 1, 101>>
    /\ res.status = "Ok"
    /\ Len(res.event[1].tags) = 3
    /\ res.event[1].tags[2] = <<>>
    /\ res.event[1].tags[3] = <<S_e, S_e, S_empty>>

----------------------------------------------------------------------------
(* The encodings the records of list have on their own, one after the     *)
(* other, from record k on.                                                 *)
RECURSIVE LayoutAppended(_, _)
LayoutAppended(list, k) ==
    IF k > Len(list) THEN <<>>
    ELSE serialize(list[k], <<>>) \o LayoutAppended(list, k + 1)

(* C28: serialize(event, buf) appends.  After any sequence of calls on one *)
(* buffer, whatever its spare capacity held, the buffer is the              *)
(* concatenation in call order of the encodings each record has when        *)
(* serialized into an empty buffer: the bytes that were there are           *)
(* unchanged and the appended bytes depend on the record only.              *)
C28_SerializeAppends ==
    op = "append" =>
        /\ buf = LayoutAppended(events, 1)
        /\ events[Len(events)] = event
        /\ \A i \in 1..Len(buf) : buf[i] \in 0..255

C28_Witness ==
    /\ op = "append"
    /\ Len(events) = 3
    /\ events[1] # events[2]
    /\ events[2] # events[3]
    /\ Len(buf) = Len(serialize(events[1], <<>>)) + Len(serialize(events[2], <<>>))
                  + Len(serialize(events[3], <<>>))
    /\ SubSeq(buf, 1, Len(serialize(events[1], <<>>))) = serialize(events[1], <<>>)

----------------------------------------------------------------------------
(* estimated, line 220: what serialize reserves behind the length of buf. *)
LayoutEstimated(e) == FIXED_SIZE + 5 + calc_max_tags_size(e.tags) + 5 + Len(e.content)

(* r = [mem, dst] is what the unsafe block of serialize(e, buf) left, buf *)
(* having held original_len bytes: every index written (the memory ends    *)
(* one past the highest) and the final length lie within the reservation.  *)
WithinEstimated(r, original_len, e) ==
    /\ Len(r.mem) <= original_len + LayoutEstimated(e)
    /\ r.dst <= original_len + LayoutEstimated(e)
    /\ r.dst >= original_len + FIXED_SIZE + 3

(* C24: during serialize(event, buf) every byte written, the tag section   *)
(* staged 5 bytes past its length varint and the hex-decoded bytes staged  *)
(* 5 bytes past their header included, lies below original_len +           *)
(* estimated, estimated = 138 + 5 + calc_max_tags_size(tags) + 5 + content *)
(* length; the final length does not exceed that bound, and serialize      *)
(* completes, leaving no byte below the final length unwritten.             *)
C24_WritesWithinEstimate ==
    op \in {"serialize", "append"} =>
        /\ WithinEstimated(
               SerializeMemAt(event, SubSeq(buf, 1, Len(buf) - Len(serialize(event, <<>>))),
                              Len(buf) - Len(serialize(event, <<>>))),
               Len(buf) - Len(serialize(event, <<>>)), event)
        /\ \A i \in 1..Len(buf) : buf[i] \in 0..255

C24_Witness ==
    /\ op = "append"
    /\ event.content = S_deadbeef
    /\ Len(buf) > 400
    /\ Len(SerializeMemAt(event, SubSeq(buf, 1, Len(buf) - Len(serialize(event, <<>>))),
                          Len(buf) - Len(serialize(event, <<>>))).mem) = Len(buf) + 4
    /\ Len(buf) + 4 <= Len(buf) - Len(serialize(event, <<>>)) + LayoutEstimated(event)

----------------------------------------------------------------------------
(* The input b has a tag section with at least one tag of at least one     *)
(* value, the header of the first value lies inside the section, and the   *)
(* length it declares reaches past the end of the section.  A length whose *)
(* varint has four continuation bytes or more is 2^28 at least, more than   *)
(* any section of the model; the section length is a varint of one or two *)
(* bytes.                                                                  *)
LayoutValueOverruns(b) ==
    LET start == 138 + LayoutVarint(b, 138).n
        end == start + LayoutVarint(b, 138).v
        at == start + 2
    IN  /\ Len(b) >= 140
        /\ b[139] < 128 \/ b[140] < 128
        /\ end <= Len(b)
        /\ at < end
        /\ b[start + 1] \in 1..127
        /\ b[start + 2] >= 1
        /\ IF b[at + 1] % 128 < 127
           THEN at + 1 + (b[at + 1] % 128) > end
           ELSE /\ at + 5 < end
                /\ \/ \A k \in 2..5 : b[at + k] >= 128
                   \/ at + 1 + LayoutVarint(b, at + 1).n + LayoutVarint(b, at + 1).v > end

(* C25: a value header inside the tag section that declares a length len  *)
(* with pos + len beyond the section length is rejected with               *)
(* InvalidTagData, for every 64-bit len, also when pos + len wraps around  *)
(* modulo 2^64; no such length reaches a reserve, a set_len or a copy.      *)
C25_OverrunRejected ==
    (op = "raw" /\ LayoutValueOverruns(input.data)) => res.status = "InvalidTagData"

----------------------------------------------------------------------------
(* The first byte with its high bit clear in the window of max_len bytes   *)
(* of w is the eleventh or a later one, or it is the tenth and carries a   *)
(* payload bit above bit 63 (7 * 9 + 1 = 64: only bit 0 of the tenth byte  *)
(* fits in a u64).                                                          *)
IsOverlong(w, max_len) ==
    \E k \in 1..max_len :
        /\ w[k] < 128
        /\ \A j \in 1..(k - 1) : w[j] >= 128
        /\ k > 10 \/ (k = 10 /\ w[k] >= 2)

(* C26: read_varint rejects an encoding whose payload extends past 64 bits *)
(* (more than 10 bytes, or a tenth byte with bits above bit 63): it        *)
(* returns 0 bytes consumed and the value 0, and does not shift the        *)
(* accumulator by 64 or more (which panics in a checked build).             *)
C26_OverlongRejected ==
    (call.fn = "window" /\ call.done /\ IsOverlong(call.w, call.max_len)) =>
        /\ ~call.back.panic
        /\ call.back.n = 0
        /\ \A i \in 1..64 : call.back.value[i] = 0

----------------------------------------------------------------------------
(* The error the documented layout assigns to the input b, "none" where    *)
(* the cases below do not decide: TooShort for an input of fewer than 140  *)
(* bytes, a tag-section length varint that never ends, a tag section or a  *)
(* content run (after an empty tag list) longer than what remains;         *)
(* InvalidTagData for a non-empty section whose tag-count varint never     *)
(* ends, that ends before the first tag's value-count byte, or whose first *)
(* value overruns it.                                                       *)
LayoutError(b) ==
    IF Len(b) < 140 THEN "TooShort"
    ELSE IF \A k \in 139..Len(b) : b[k] >= 128 THEN "TooShort"
    ELSE IF b[139] >= 128 /\ b[140] >= 128 THEN "none"
    ELSE LET start == 138 + LayoutVarint(b, 138).n
             end == start + LayoutVarint(b, 138).v
         IN  IF end > Len(b) THEN "TooShort"
             ELSE IF end > start /\ \A k \in (start + 1)..end : b[k] >= 128
                  THEN "InvalidTagData"
             ELSE IF end = start + 1 /\ b[start + 1] \in 1..127 THEN "InvalidTagData"
             ELSE IF LayoutValueOverruns(b) THEN "InvalidTagData"
             ELSE IF /\ end = start \/ b[start + 1] = 0
                     /\ end < Len(b)
                     /\ b[end + 1] % 128 < 127
                     /\ end + 1 + (b[end + 1] % 128) > Len(b)
                  THEN "TooShort"
             ELSE "none"

(* C27: deserialize returns TooShort for an input shorter than 140 bytes,  *)
(* a truncated tag-section length varint, a tag-section length or a        *)
(* content length beyond the bytes remaining; InvalidTagData for a         *)
(* truncated tag-count varint, a value-count byte past the section end or  *)
(* a value length beyond the rest of the section; and an error it returns  *)
(* is one of these two.                                                     *)
C27_ErrorKinds ==
    op \in {"raw", "truncated"} =>
        /\ res.status \notin {"Ok", "Panic", "Fault"} =>
              res.status \in {"TooShort", "InvalidTagData"}
        /\ LayoutError(input.data) # "none" => res.status = LayoutError(input.data)

----------------------------------------------------------------------------
(* C29: bytes after the content run do not change what deserialize         *)
(* returns: for the encoding B of a record and the bytes X,                *)
(* deserialize(B ++ X) succeeds with the record of deserialize(B); bytes   *)
(* of the tag section after the last counted tag are skipped; a tag        *)
(* section of length 0 gives an empty tag list; deserialize_batch of a     *)
(* batch encoding followed by X succeeds with the records of the batch.    *)
C29_TrailingIgnored ==
    /\ op = "trailing" =>
          /\ res.status = "Ok"
          /\ res.event = deserialize([data |-> buf, junk |-> <<>>, build |-> input.build]).event
          /\ ~res.oob
    /\ op = "batch_trailing" =>
          /\ bres.status = "Ok"
          /\ bres.events
                = deserialize_batch([data |-> bbuf, junk |-> <<>>, build |-> input.build]).events
    /\ (op = "raw" /\ input.data = FixedBytes(Fixed1) \o <<4, 0, 9, 9, 9, 0>>) =>
          /\ res.status = "Ok"
          /\ res.event = deserialize([data |-> FixedBytes(Fixed1) \o <<1, 0, 0>>, junk |-> <<>>,
                                      build |-> input.build]).event
    /\ (op = "raw" /\ input.data = FixedBytes(Fixed1) \o <<3, 1, 0, 7, 1, 33>>) =>
          /\ res.status = "Ok"
          /\ res.event = deserialize([data |-> FixedBytes(Fixed1) \o <<2, 1, 0, 1, 33>>,
                                      junk |-> <<>>, build |-> input.build]).event
    /\ (op = "raw" /\ input.data = FixedBytes(Fixed1) \o <<0, 0>>) =>
          /\ res.status = "Ok"
          /\ res.event[1].tags = <<>>

C29_Witness ==
    /\ op = "trailing"
    /\ input.data = buf \o FixedBytes(Fixed1) \o <<1, 0, 0>>
    /\ res.status = "Ok"
    /\ res.event = <<event>>
    /\ Len(event.tags) = 2
    /\ event.content = S_Hello

----------------------------------------------------------------------------
(* C30: deserialize and deserialize_batch return on every input.  The     *)
(* turns of the tag loop and of the value loop started in one call of      *)
(* deserialize are at most the tag-section length, whatever tag count the  *)
(* input claims; the turns of the loop of deserialize_batch are at most    *)
(* one per 4 bytes of input; every call reaches its return, with the       *)
(* status the whole call has.                                               *)
C30_AlwaysTerminates ==
    /\ [](/\ call.iters <= call.max_len
          /\ call.biters <= Len(call.B.data) \div 4
          /\ (call.fn = "deserialize" /\ call.pc = "done") =>
                call.status = deserialize(call.M).status
          /\ (call.fn = "deserialize_batch" /\ call.pc = "done") =>
                call.status = deserialize_batch(call.B).status)
    /\ <>[](call.pc = "done")

C30_Witness ==
    /\ call.fn = "deserialize"
    /\ call.pc = "done"
    /\ call.status = "InvalidTagData"
    /\ call.max_len = 5
    /\ call.iters = 5
    /\ U64ToNat(call.tag_count) = 100

====
